---- MODULE Spec2Model ----
(***************************************************************************)
(* A model of the feynman knowledge-progress and scheduling engine         *)
(* (src/src/db.rs, src/src/models.rs): the SQLite store as tables, one     *)
(* action per Database method, the wall clock as a tick counter.           *)
(***************************************************************************)
EXTENDS Integers, Sequences, FiniteSets, TLC

VARIABLES
    now,                \* the wall clock read by Utc::now() and datetime('now'), in ticks
    topics,             \* table topics: id -> row
    progress,           \* table progress: topic_id -> row (topic_id is UNIQUE)
    tags,               \* table tags: the set of tag names
    topic_tags,         \* table topic_tags: set of <<topic_id, tag name>>
    review_history,     \* table review_history: rows in id order
    learning_sessions,  \* table learning_sessions: id -> row
    session_gaps,       \* table session_gaps: id -> row
    skill_assessments,  \* table skill_assessments: rows in id order
    plans,              \* table plans: id -> row
    plan_interview_entries, \* table plan_interview_entries: rows in id order
    sqlite_sequence,    \* AUTOINCREMENT counters: table name -> last id handed out
    app,                \* the App of the terminal interface
    result              \* what the last call returned to its caller

vars == <<now, topics, progress, tags, topic_tags, review_history,
          learning_sessions, session_gaps, skill_assessments,
          plans, plan_interview_entries, sqlite_sequence, app, result>>

(***************************************************************************)
(* Bounds of the model.                                                    *)
(***************************************************************************)
TicksPerDay == 2        \* clock resolution: ticks in one day
MaxTopicId == 2         \* topic ids handed out in Spec, SpecSelect and SpecSession
MaxReviews == 2         \* review_history ids handed out in Spec
MaxDeepReviews == 6     \* review_history ids handed out in SpecMastery
MaxDeepTime == 1        \* the clock of SpecMastery stops here (ticks)
MaxSelectReviews == 1   \* review_history ids handed out in SpecSelect
MaxSelectTime == 4      \* the clock of SpecSelect stops here (ticks)
RandSteps == 3          \* rng.gen::<f64>() draws k / RandSteps, k in 0 .. RandSteps - 1
MaxSessions == 1        \* learning_sessions ids handed out in SpecSession
MaxAssessments == 1     \* skill_assessments ids handed out in SpecSession
MaxSessionReviews == 1  \* review_history ids handed out in SpecSession
MaxGapSessions == 2     \* learning_sessions ids handed out in SpecGaps
MaxGaps == 2            \* session_gaps ids handed out in SpecGaps
MaxGapTime == 1         \* the clock of SpecGaps stops here (ticks)
MaxSkillAssessments == 3 \* skill_assessments ids handed out in SpecSkill
MaxSkillReviews == 1    \* review_history ids handed out in SpecSkill
MaxSkillTime == 1       \* the clock of SpecSkill stops here (ticks)
MaxStatusPlans == 1     \* plans ids handed out in SpecPlanStatus
MaxStatusTime == 1      \* the clock of SpecPlanStatus stops here (ticks)
MaxEntryPlans == 1      \* plans ids handed out in SpecEntries
MaxEntries == 2         \* plan_interview_entries ids handed out in SpecEntries
MaxEntryTime == 1       \* the clock of SpecEntries stops here (ticks)
MaxCascadeRows == 2     \* ids handed out in each dependent table in SpecCascade
MaxTopicsReviews == 1   \* review_history ids handed out in SpecTopics
MaxTopicsTime == 2      \* the clock of SpecTopics stops here (ticks)
MaxMissingRows == 1     \* topics, sessions, gaps and plans of SpecMissing
MaxEndSessions == 1     \* learning_sessions ids handed out in SpecEnd
MaxEndTime == 2         \* the clock of SpecEnd stops here (ticks)
MaxTouchPlans == 1      \* plans ids handed out in SpecTouch
MaxTouchEntries == 1    \* plan_interview_entries ids handed out in SpecTouch
MaxTouchTime == 2       \* the clock of SpecTouch stops here (ticks)
MaxOrderPlans == 2      \* plans ids handed out in SpecOrder
MaxOrderEntries == 3    \* plan_interview_entries ids handed out in SpecOrder
MaxOrderTime == 2       \* the clock of SpecOrder stops here (ticks)
MaxDueReviews == 1      \* review_history ids handed out in SpecDue
MaxDueTime == 4         \* the clock of SpecDue stops here (ticks)
MaxStatsReviews == 3    \* review_history ids handed out in SpecStats
MaxTuiTopics == 2       \* topics ids handed out in SpecTui
MaxTuiPlans == 1        \* plans ids handed out in SpecTui
MaxFilterLen == 1       \* chars typed into filter_input in SpecTui

Names == {"a", "b"}
TaggedTopics == {<<"a", <<"rust">>>>, <<"b", <<>>>>}
TagFilters == {<<>>, <<"rust">>}
NewTopics == {<<"a", <<"rust">>>>, <<"a", <<"go">>>>, <<"b", <<"rust", "go">>>>}
NotesInputs == {<<>>, <<"">>, <<"n1">>}
EndTexts == {<<<<>>, <<>>>>, <<<<"s1">>, <<"n1">>>>}

(***************************************************************************)
(* Option<T>: None is the empty sequence, Some(v) the one-element one.     *)
(***************************************************************************)
None == <<>>
Some(v) == <<v>>
IsSome(o) == o # <<>>

(***************************************************************************)
(* Timestamps as the store holds them: TEXT in one of two formats.         *)
(* datetime('now') writes "YYYY-MM-DD HH:MM:SS"; to_rfc3339() writes       *)
(* "YYYY-MM-DDTHH:MM:SS.f+00:00".                                          *)
(***************************************************************************)
SqliteNow(t) == [fmt |-> "sqlite", t |-> t]
to_rfc3339(t) == [fmt |-> "rfc3339", t |-> t]

\* DateTime::parse_from_rfc3339: the offset is mandatory, so the SQLite format is an Err.
parse_from_rfc3339(s) == IF s.fmt = "rfc3339" THEN Some(s.t) ELSE None

DayOf(t) == t \div TicksPerDay

\* SQLite's TEXT comparison (BINARY collation) of two stored timestamps: the date
\* prefix decides; on the same date ' ' (0x20) sorts before 'T' (0x54).
TextLess(a, b) ==
    \/ DayOf(a.t) < DayOf(b.t)
    \/ /\ DayOf(a.t) = DayOf(b.t)
       /\ \/ a.fmt = b.fmt /\ a.t < b.t
          \/ a.fmt = "sqlite" /\ b.fmt = "rfc3339"

\* chrono::Duration::days(d)
DurationDays(d) == d * TicksPerDay

\* chrono::Duration::num_days(): whole days, truncated toward zero
num_days(diff) ==
    IF diff >= 0 THEN diff \div TicksPerDay ELSE 0 - ((0 - diff) \div TicksPerDay)

Max(a, b) == IF a >= b THEN a ELSE b
Min(a, b) == IF a <= b THEN a ELSE b

\* SQLite enforces the FOREIGN KEY clauses of the schema (ON DELETE CASCADE is
\* what the delete_*_cascades_* tests rely on).
ForeignKeys == TRUE

(***************************************************************************)
(* Outcome of a call.                                                      *)
(***************************************************************************)
Ok(op, args, value) == [op |-> op, status |-> "Ok", args |-> args, value |-> value]
Err(op, args, e) == [op |-> op, status |-> e, args |-> args, value |-> None]
NoResult == [op |-> "none", status |-> "Ok", args |-> <<>>, value |-> None]

topicVars == <<topics, progress, tags, topic_tags>>
sessionVars == <<learning_sessions, session_gaps>>
planVars == <<plans, plan_interview_entries>>

\* A table with one more row / without some rows
Insert(table, id, row) == [i \in DOMAIN table \cup {id} |-> IF i = id THEN row ELSE table[i]]
Restrict(table, keep) == [i \in keep |-> table[i]]
SeqToSet(s) == {s[i] : i \in DOMAIN s}

\* a String as its chars
Chars(s) ==
    CASE s = "r" -> <<"r">>
      [] s = "g" -> <<"g">>
      [] s = "go" -> <<"g", "o">>
      [] s = "rust" -> <<"r", "u", "s", "t">>

(***************************************************************************)
(* Time passes between two calls.                                          *)
(***************************************************************************)
Advance ==
    /\ now' = now + 1
    /\ result' = NoResult
    /\ UNCHANGED <<app, planVars, topicVars, review_history, sessionVars, skill_assessments,
                   sqlite_sequence>>

(***************************************************************************)
(* Database::add_topic                                                     *)
(***************************************************************************)
\* NewProgress with the first review due a day after the creation
NewProgressDueLater(t) ==
    [mastery_level |-> 0, times_reviewed |-> 0, times_succeeded |-> 0,
     last_reviewed |-> None, next_review |-> SqliteNow(t + TicksPerDay), notes |-> None,
     skill_level |-> 0, assessment_method |-> "none", last_assessed |-> None]

NewProgress(t) ==
    [mastery_level |-> 0, times_reviewed |-> 0, times_succeeded |-> 0,
     last_reviewed |-> None, next_review |-> SqliteNow(t), notes |-> None,
     skill_level |-> 0, assessment_method |-> "none", last_assessed |-> None]

\* add_topic creating the tags before it inserts the topic
add_topic_tags_first(name, description, tagList) ==
    LET args == <<name, description, tagList>>
        topic_id == sqlite_sequence.topics + 1
    IN  IF \E id \in DOMAIN topics : topics[id].name = name
        THEN /\ tags' = tags \cup SeqToSet(tagList)
             /\ result' = Err("add_topic", args, "ConstraintViolation")
             /\ UNCHANGED <<app, planVars, now, topics, progress, topic_tags, review_history,
                            sessionVars, skill_assessments, sqlite_sequence>>
        ELSE /\ topics' = Insert(topics, topic_id,
                                 [name |-> name, description |-> description,
                                  created_at |-> SqliteNow(now),
                                  updated_at |-> SqliteNow(now)])
             /\ progress' = Insert(progress, topic_id, NewProgress(now))
             /\ tags' = tags \cup SeqToSet(tagList)
             /\ topic_tags' = topic_tags \cup {<<topic_id, tg>> : tg \in SeqToSet(tagList)}
             /\ sqlite_sequence' = [sqlite_sequence EXCEPT !.topics = topic_id]
             /\ result' = Ok("add_topic", args, Some(topic_id))
             /\ UNCHANGED <<app, planVars, now, review_history, sessionVars, skill_assessments>>

add_topic(name, description, tagList) ==
    LET args == <<name, description, tagList>>
        topic_id == sqlite_sequence.topics + 1
    IN  IF \E id \in DOMAIN topics : topics[id].name = name
        THEN \* UNIQUE(name): the INSERT fails, nothing was written
             /\ result' = Err("add_topic", args, "ConstraintViolation")
             /\ UNCHANGED <<app, planVars, now, topicVars, review_history, sessionVars,
                            skill_assessments, sqlite_sequence>>
        ELSE /\ topics' = Insert(topics, topic_id,
                                 [name |-> name, description |-> description,
                                  created_at |-> SqliteNow(now),
                                  updated_at |-> SqliteNow(now)])
             /\ progress' = Insert(progress, topic_id, NewProgress(now))
             /\ tags' = tags \cup SeqToSet(tagList)
             /\ topic_tags' = topic_tags \cup {<<topic_id, tg>> : tg \in SeqToSet(tagList)}
             /\ sqlite_sequence' = [sqlite_sequence EXCEPT !.topics = topic_id]
             /\ result' = Ok("add_topic", args, Some(topic_id))
             /\ UNCHANGED <<app, planVars, now, review_history, sessionVars, skill_assessments>>

(***************************************************************************)
(* Database::delete_topic, with the ON DELETE CASCADE of the schema        *)
(***************************************************************************)
\* delete_topic with the gaps of the removed sessions left behind
delete_topic_leaving_gaps(id) ==
    LET keepTopics == DOMAIN topics \ {id}
        keepSessions == {s \in DOMAIN learning_sessions :
                            learning_sessions[s].topic_id # id}
    IN  /\ topics' = Restrict(topics, keepTopics)
        /\ progress' = Restrict(progress, DOMAIN progress \ {id})
        /\ topic_tags' = {tt \in topic_tags : tt[1] # id}
        /\ review_history' = SelectSeq(review_history, LAMBDA r : r.topic_id # id)
        /\ learning_sessions' = Restrict(learning_sessions, keepSessions)
        /\ skill_assessments' = SelectSeq(skill_assessments, LAMBDA r : r.topic_id # id)
        /\ result' = Ok("delete_topic", <<id>>, Some(id \in DOMAIN topics))
        /\ UNCHANGED <<app, planVars, now, tags, session_gaps, sqlite_sequence>>

delete_topic(id) ==
    LET keepTopics == DOMAIN topics \ {id}
        keepSessions == {s \in DOMAIN learning_sessions :
                            learning_sessions[s].topic_id # id}
        keepGaps == {g \in DOMAIN session_gaps :
                            session_gaps[g].session_id \in keepSessions}
    IN  /\ topics' = Restrict(topics, keepTopics)
        /\ IF ForeignKeys
           THEN /\ progress' = Restrict(progress, DOMAIN progress \ {id})
                /\ topic_tags' = {tt \in topic_tags : tt[1] # id}
                /\ review_history' = SelectSeq(review_history, LAMBDA r : r.topic_id # id)
                /\ learning_sessions' = Restrict(learning_sessions, keepSessions)
                /\ session_gaps' = Restrict(session_gaps, keepGaps)
                /\ skill_assessments' =
                       SelectSeq(skill_assessments, LAMBDA r : r.topic_id # id)
           ELSE UNCHANGED <<app, progress, topic_tags, review_history, sessionVars,
                            skill_assessments>>
        /\ result' = Ok("delete_topic", <<id>>, Some(id \in DOMAIN topics))
        /\ UNCHANGED <<app, planVars, now, tags, sqlite_sequence>>

(***************************************************************************)
(* Database::calculate_interval and Database::record_review                *)
(***************************************************************************)
calculate_interval(mastery_level) ==
    CASE mastery_level = 0 -> 1
      [] mastery_level = 1 -> 2
      [] mastery_level = 2 -> 4
      [] mastery_level = 3 -> 7
      [] mastery_level = 4 -> 14
      [] mastery_level = 5 -> 30
      [] OTHER -> 30

\* ReviewTransition with the .min(5) of the Success arm left out
ReviewTransitionNoCap(outcome, mastery_level) ==
    CASE outcome = "success" ->
            [new_mastery |-> mastery_level + 1,
             days |-> calculate_interval(mastery_level + 1)]
      [] outcome = "partial" ->
            [new_mastery |-> mastery_level,
             days |-> Max(calculate_interval(mastery_level) \div 2, 1)]
      [] outcome = "fail" ->
            [new_mastery |-> Max(mastery_level - 1, 0), days |-> 1]

\* ReviewTransition with the days.max(1) of the Partial arm left out
ReviewTransitionNoMinDay(outcome, mastery_level) ==
    CASE outcome = "success" ->
            [new_mastery |-> Min(mastery_level + 1, 5),
             days |-> calculate_interval(Min(mastery_level + 1, 5))]
      [] outcome = "partial" ->
            [new_mastery |-> mastery_level,
             days |-> calculate_interval(mastery_level) \div 2]
      [] outcome = "fail" ->
            [new_mastery |-> Max(mastery_level - 1, 0), days |-> 1]

\* ReviewTransition with the Partial arm raising the level as Success does
ReviewTransitionPartialUp(outcome, mastery_level) ==
    CASE outcome \in {"success", "partial"} ->
            LET new_level == Min(mastery_level + 1, 5)
            IN  [new_mastery |-> new_level, days |-> calculate_interval(new_level)]
      [] outcome = "fail" ->
            [new_mastery |-> Max(mastery_level - 1, 0), days |-> 1]

\* the match on outcome: (new_mastery, days_until_next)
ReviewTransition(outcome, mastery_level) ==
    CASE outcome = "success" ->
            LET new_level == Min(mastery_level + 1, 5)
            IN  [new_mastery |-> new_level, days |-> calculate_interval(new_level)]
      [] outcome = "partial" ->
            LET new_level == mastery_level
                days == calculate_interval(new_level) \div 2
            IN  [new_mastery |-> new_level, days |-> Max(days, 1)]
      [] outcome = "fail" ->
            [new_mastery |-> Max(mastery_level - 1, 0), days |-> 1]

\* NewTimesSucceeded counting every outcome but Fail
NewTimesSucceededLoose(outcome, times_succeeded) ==
    IF outcome # "fail" THEN times_succeeded + 1 ELSE times_succeeded

NewTimesSucceeded(outcome, times_succeeded) ==
    IF outcome = "success" THEN times_succeeded + 1 ELSE times_succeeded

\* Coalesce with the COALESCE forgotten: notes = ?5
CoalesceAlways(arg, stored) == arg

\* SQL COALESCE(?5, notes): the first argument that is not NULL
Coalesce(arg, stored) == IF arg # None THEN arg ELSE stored

\* ReviewedProgress deriving the skill level from the new mastery level
ReviewedProgressSettingSkill(p, outcome, notes, t) ==
    LET tr == ReviewTransition(outcome, p.mastery_level)
    IN  [p EXCEPT !.mastery_level = tr.new_mastery,
                  !.times_reviewed = @ + 1,
                  !.times_succeeded = NewTimesSucceeded(outcome, p.times_succeeded),
                  !.last_reviewed = Some(to_rfc3339(t)),
                  !.next_review = to_rfc3339(t + DurationDays(tr.days)),
                  !.notes = Coalesce(notes, @),
                  !.skill_level = tr.new_mastery]

\* the UPDATE progress statement
ReviewedProgress(p, outcome, notes, t) ==
    LET tr == ReviewTransition(outcome, p.mastery_level)
    IN  [p EXCEPT !.mastery_level = tr.new_mastery,
                  !.times_reviewed = @ + 1,
                  !.times_succeeded = NewTimesSucceeded(outcome, p.times_succeeded),
                  !.last_reviewed = Some(to_rfc3339(t)),
                  !.next_review = to_rfc3339(t + DurationDays(tr.days)),
                  !.notes = Coalesce(notes, @)]

record_review(topic_id, outcome, notes) ==
    LET args == <<topic_id, outcome, notes>>
        row == [id |-> sqlite_sequence.review_history + 1, topic_id |-> topic_id,
                outcome |-> outcome, reviewed_at |-> to_rfc3339(now), notes |-> notes]
    IN  IF ForeignKeys /\ topic_id \notin DOMAIN topics
        THEN \* the INSERT into review_history violates its FOREIGN KEY
             /\ result' = Err("record_review", args, "ConstraintViolation")
             /\ UNCHANGED <<app, planVars, now, topicVars, review_history, sessionVars,
                            skill_assessments, sqlite_sequence>>
        ELSE /\ review_history' = Append(review_history, row)
             /\ sqlite_sequence' = [sqlite_sequence EXCEPT !.review_history = row.id]
             /\ IF topic_id \notin DOMAIN progress
                THEN /\ result' = Err("record_review", args, "QueryReturnedNoRows")
                     /\ UNCHANGED progress
                ELSE /\ progress' = [progress EXCEPT ![topic_id] =
                                        ReviewedProgress(@, outcome, notes, now)]
                     /\ result' = Ok("record_review", args, None)
             /\ UNCHANGED <<app, planVars, now, topics, tags, topic_tags, sessionVars, skill_assessments>>


(***************************************************************************)
(* Database::get_due_topics and Database::get_next_topic                   *)
(***************************************************************************)
\* Candidates with the tag filter not applied
CandidatesUnfiltered(tag_filter) == DOMAIN topics \cap DOMAIN progress

\* the rows of topics JOIN progress (JOIN topic_tags JOIN tags WHERE tg.name = ?1)
Candidates(tag_filter) ==
    {id \in DOMAIN topics \cap DOMAIN progress :
        \/ tag_filter = None
        \/ tag_filter[1] \in tags /\ <<id, tag_filter[1]>> \in topic_tags}

\* ORDER BY p.next_review ASC, p.mastery_level ASC: row a sorts strictly before row b
OrderedBefore(a, b) ==
    \/ TextLess(progress[a].next_review, progress[b].next_review)
    \/ /\ progress[a].next_review = progress[b].next_review
       /\ progress[a].mastery_level < progress[b].mastery_level

Perms(S) ==
    {f \in [1 .. Cardinality(S) -> S] : \A i, j \in 1 .. Cardinality(S) : i # j => f[i] # f[j]}

\* every row order the ORDER BY allows (rows equal on both keys come in any order)
get_due_topics(tag_filter) ==
    {list \in Perms(Candidates(tag_filter)) :
        \A i, j \in DOMAIN list : i < j => ~OrderedBefore(list[j], list[i])}

\* the closure computing one candidate's weight at time t
OverdueDays(p, t) ==
    LET next_dt == parse_from_rfc3339(p.next_review)
    IN  IF IsSome(next_dt) THEN Max(num_days(t - next_dt[1]), 0) + 1 ELSE 1

Weight(p, t) == OverdueDays(p, t) * (6 - p.mastery_level)

RECURSIVE SumSeq(_)
SumSeq(s) == IF s = <<>> THEN 0 ELSE s[1] + SumSeq(Tail(s))

\* the for loop over weights; random_point and the weights are in units of
\* 1 / RandSteps. The index of the hit, 0 when the loop ends without one.
RECURSIVE ScanFrom(_, _, _)
ScanFrom(weights, i, random_point) ==
    IF i > Len(weights) THEN 0
    ELSE LET rest == random_point - weights[i] * RandSteps
         IN  IF rest <= 0 THEN i ELSE ScanFrom(weights, i + 1, rest)

\* Scan comparing the draw with each weight, the subtraction not carried over
ScanNoCarry(weights, random_point) ==
    IF \E i \in DOMAIN weights : random_point - weights[i] * RandSteps <= 0
    THEN CHOOSE i \in DOMAIN weights :
            /\ random_point - weights[i] * RandSteps <= 0
            /\ \A j \in 1 .. i - 1 : random_point - weights[j] * RandSteps > 0
    ELSE 0

Scan(weights, random_point) == ScanFrom(weights, 1, random_point)

\* k / RandSteps is the value of rng.gen::<f64>()
get_next_topic(tag_filter, k) ==
    \E list \in get_due_topics(tag_filter) :
        LET args == <<tag_filter, k>>
            weights == [i \in DOMAIN list |-> Weight(progress[list[i]], now)]
            total_weight == SumSeq(weights)
            hit == Scan(weights, k * total_weight)
            chosen == IF list = <<>> THEN None
                      ELSE IF hit # 0 THEN Some(list[hit])
                      ELSE Some(list[1])
        IN  /\ result' = Ok("get_next_topic", args,
                            [chosen |-> chosen, topics |-> list, weights |-> weights,
                             hit |-> hit])
            /\ UNCHANGED <<app, planVars, now, topicVars, review_history, sessionVars,
                           skill_assessments, sqlite_sequence>>

(***************************************************************************)
(* Database::start_session, Database::end_session                          *)
(***************************************************************************)
\* SkillLevel::from_i32 and SkillLevel::as_i32
SkillLevel_from_i32(v) == IF v \in 1 .. 5 THEN v ELSE 0

\* SkillOf reading a level that is never the stored one: always Unknown
SkillOfUnknown(topic_id) == IF topic_id \in DOMAIN progress THEN Some(0) ELSE None

\* get_progress(topic_id)?.map(|p| p.skill_level.as_i32())
SkillOf(topic_id) ==
    IF topic_id \in DOMAIN progress
    THEN Some(SkillLevel_from_i32(progress[topic_id].skill_level))
    ELSE None

start_session(topic_id, session_type) ==
    LET args == <<topic_id, session_type>>
        id == sqlite_sequence.learning_sessions + 1
        skill_at_start == SkillOf(topic_id)
    IN  IF ForeignKeys /\ topic_id \notin DOMAIN topics
        THEN /\ result' = Err("start_session", args, "ConstraintViolation")
             /\ UNCHANGED <<app, planVars, now, topicVars, review_history, sessionVars,
                            skill_assessments, sqlite_sequence>>
        ELSE /\ learning_sessions' = Insert(learning_sessions, id,
                    [topic_id |-> topic_id, session_type |-> session_type,
                     started_at |-> to_rfc3339(now), ended_at |-> None,
                     skill_level_at_start |-> skill_at_start, outcome |-> None,
                     summary |-> None, notes |-> None])
             /\ sqlite_sequence' = [sqlite_sequence EXCEPT !.learning_sessions = id]
             /\ result' = Ok("start_session", args, Some(id))
             /\ UNCHANGED <<app, planVars, now, topicVars, review_history, session_gaps, skill_assessments>>

\* EndedSessions touching only a session that has not been ended yet
EndedSessionsOnce(session_id, outcome, summary, notes) ==
    [s \in DOMAIN learning_sessions |->
        IF s = session_id /\ learning_sessions[s].ended_at = None
        THEN [learning_sessions[s] EXCEPT !.ended_at = Some(to_rfc3339(now)),
                                          !.outcome = Some(outcome),
                                          !.summary = summary,
                                          !.notes = notes]
        ELSE learning_sessions[s]]

\* the UPDATE learning_sessions ... WHERE id = ?5 statement
EndedSessions(session_id, outcome, summary, notes) ==
    [s \in DOMAIN learning_sessions |->
        IF s = session_id
        THEN [learning_sessions[s] EXCEPT !.ended_at = Some(to_rfc3339(now)),
                                          !.outcome = Some(outcome),
                                          !.summary = summary,
                                          !.notes = notes]
        ELSE learning_sessions[s]]

\* SessionOutcome::to_review_outcome
to_review_outcome(outcome) == IF outcome = "abandoned" THEN None ELSE Some(outcome)

\* end_session feeding the outcome to the review transition as well
end_session_recording_review(session_id, outcome, summary, notes) ==
    LET review == to_review_outcome(outcome)
        topic_id == learning_sessions[session_id].topic_id
    IN  /\ learning_sessions' = EndedSessions(session_id, outcome, summary, notes)
        /\ result' = Ok("end_session", <<session_id, outcome, summary, notes>>, None)
        /\ IF session_id \in DOMAIN learning_sessions /\ IsSome(review)
           THEN progress' = [progress EXCEPT ![topic_id] =
                                ReviewedProgress(@, review[1], None, now)]
           ELSE UNCHANGED progress
        /\ UNCHANGED <<app, planVars, now, topics, tags, topic_tags, review_history, session_gaps,
                       skill_assessments, sqlite_sequence>>

end_session(session_id, outcome, summary, notes) ==
    /\ learning_sessions' = EndedSessions(session_id, outcome, summary, notes)
    /\ result' = Ok("end_session", <<session_id, outcome, summary, notes>>, None)
    /\ UNCHANGED <<app, planVars, now, topicVars, review_history, session_gaps, skill_assessments,
                   sqlite_sequence>>

(***************************************************************************)
(* Database::update_skill_level                                            *)
(***************************************************************************)
\* update_skill_level reading the level for the history after the UPDATE
update_skill_level_late_read(topic_id, new_level, method, notes) ==
    LET args == <<topic_id, new_level, method, notes>>
        id == sqlite_sequence.skill_assessments + 1
    IN  IF ForeignKeys /\ topic_id \notin DOMAIN topics
        THEN /\ result' = Err("update_skill_level", args, "ConstraintViolation")
             /\ UNCHANGED <<app, planVars, now, topicVars, review_history, sessionVars,
                            skill_assessments, sqlite_sequence>>
        ELSE /\ skill_assessments' = Append(skill_assessments,
                    [id |-> id, topic_id |-> topic_id, assessed_at |-> to_rfc3339(now),
                     method |-> method, previous_level |-> Some(new_level),
                     new_level |-> new_level, notes |-> notes])
             /\ sqlite_sequence' = [sqlite_sequence EXCEPT !.skill_assessments = id]
             /\ progress' = [t \in DOMAIN progress |->
                    IF t = topic_id
                    THEN [progress[t] EXCEPT !.skill_level = new_level,
                                             !.assessment_method = method,
                                             !.last_assessed = Some(to_rfc3339(now))]
                    ELSE progress[t]]
             /\ result' = Ok("update_skill_level", args, None)
             /\ UNCHANGED <<app, planVars, now, topics, tags, topic_tags, review_history,
                            sessionVars>>

update_skill_level(topic_id, new_level, method, notes) ==
    LET args == <<topic_id, new_level, method, notes>>
        id == sqlite_sequence.skill_assessments + 1
        previous_level == SkillOf(topic_id)
    IN  IF ForeignKeys /\ topic_id \notin DOMAIN topics
        THEN /\ result' = Err("update_skill_level", args, "ConstraintViolation")
             /\ UNCHANGED <<app, planVars, now, topicVars, review_history, sessionVars,
                            skill_assessments, sqlite_sequence>>
        ELSE /\ skill_assessments' = Append(skill_assessments,
                    [id |-> id, topic_id |-> topic_id, assessed_at |-> to_rfc3339(now),
                     method |-> method, previous_level |-> previous_level,
                     new_level |-> new_level, notes |-> notes])
             /\ sqlite_sequence' = [sqlite_sequence EXCEPT !.skill_assessments = id]
             /\ progress' = [t \in DOMAIN progress |->
                    IF t = topic_id
                    THEN [progress[t] EXCEPT !.skill_level = new_level,
                                             !.assessment_method = method,
                                             !.last_assessed = Some(to_rfc3339(now))]
                    ELSE progress[t]]
             /\ result' = Ok("update_skill_level", args, None)
             /\ UNCHANGED <<app, planVars, now, topics, tags, topic_tags, review_history, sessionVars>>

(***************************************************************************)
(* Database::add_session_gap, Database::mark_gap_addressed,                *)
(* Database::get_unaddressed_gaps                                          *)
(***************************************************************************)
add_session_gap(session_id, gap_description) ==
    LET args == <<session_id, gap_description>>
        id == sqlite_sequence.session_gaps + 1
    IN  IF ForeignKeys /\ session_id \notin DOMAIN learning_sessions
        THEN /\ result' = Err("add_session_gap", args, "ConstraintViolation")
             /\ UNCHANGED <<app, planVars, now, topicVars, review_history, sessionVars,
                            skill_assessments, sqlite_sequence>>
        ELSE /\ session_gaps' = Insert(session_gaps, id,
                    [session_id |-> session_id, gap_description |-> gap_description,
                     addressed |-> FALSE])
             /\ sqlite_sequence' = [sqlite_sequence EXCEPT !.session_gaps = id]
             /\ result' = Ok("add_session_gap", args, Some(id))
             /\ UNCHANGED <<app, planVars, now, topicVars, review_history, learning_sessions,
                            skill_assessments>>

\* MarkedGaps flipping the flag instead of setting it
MarkedGapsToggled(gap_id) ==
    [g \in DOMAIN session_gaps |->
        IF g = gap_id THEN [session_gaps[g] EXCEPT !.addressed = ~@] ELSE session_gaps[g]]

\* UPDATE session_gaps SET addressed = 1 WHERE id = ?1
MarkedGaps(gap_id) ==
    [g \in DOMAIN session_gaps |->
        IF g = gap_id THEN [session_gaps[g] EXCEPT !.addressed = TRUE] ELSE session_gaps[g]]

mark_gap_addressed(gap_id) ==
    /\ session_gaps' = MarkedGaps(gap_id)
    /\ result' = Ok("mark_gap_addressed", <<gap_id>>, None)
    /\ UNCHANGED <<app, planVars, now, topicVars, review_history, learning_sessions,
                   skill_assessments, sqlite_sequence>>

\* UnaddressedRows without the ls.topic_id = ?1 condition
UnaddressedRowsAnyTopic(topic_id) ==
    {g \in DOMAIN session_gaps :
        /\ session_gaps[g].session_id \in DOMAIN learning_sessions
        /\ ~session_gaps[g].addressed}

\* session_gaps sg JOIN learning_sessions ls WHERE ls.topic_id = ?1 AND sg.addressed = 0
UnaddressedRows(topic_id) ==
    {g \in DOMAIN session_gaps :
        /\ session_gaps[g].session_id \in DOMAIN learning_sessions
        /\ learning_sessions[session_gaps[g].session_id].topic_id = topic_id
        /\ ~session_gaps[g].addressed}

\* ORDER BY ls.started_at DESC: gap a sorts strictly before gap b
GapOrderedBefore(a, b) ==
    TextLess(learning_sessions[session_gaps[b].session_id].started_at,
             learning_sessions[session_gaps[a].session_id].started_at)

\* the SessionGap built from a row
SessionGap(g) ==
    [id |-> g, session_id |-> session_gaps[g].session_id,
     gap_description |-> session_gaps[g].gap_description,
     addressed |-> session_gaps[g].addressed]

get_unaddressed_gaps(topic_id) ==
    \E list \in Perms(UnaddressedRows(topic_id)) :
        /\ \A i, j \in DOMAIN list : i < j => ~GapOrderedBefore(list[j], list[i])
        /\ result' = Ok("get_unaddressed_gaps", <<topic_id>>,
                        [i \in DOMAIN list |-> SessionGap(list[i])])
        /\ UNCHANGED <<app, planVars, now, topicVars, review_history, sessionVars,
                       skill_assessments, sqlite_sequence>>

(***************************************************************************)
(* Plans: Database::create_plan, update_plan_status, update_plan_spec_path, *)
(* delete_plan                                                             *)
(***************************************************************************)
create_plan(title, initial_description) ==
    LET id == sqlite_sequence.plans + 1
    IN  /\ plans' = Insert(plans, id,
               [title |-> title, initial_description |-> initial_description,
                status |-> "interviewing", engineer_level |-> None,
                spec_file_path |-> None, created_at |-> to_rfc3339(now),
                updated_at |-> to_rfc3339(now)])
        /\ sqlite_sequence' = [sqlite_sequence EXCEPT !.plans = id]
        /\ result' = Ok("create_plan", <<title, initial_description>>, Some(id))
        /\ UNCHANGED <<app, plan_interview_entries, now, topicVars, review_history, sessionVars,
                       skill_assessments>>

\* StatusSet refusing to leave the terminal statuses complete and abandoned
StatusSetGuarded(plan_id, status) ==
    [p \in DOMAIN plans |->
        IF p = plan_id /\ plans[p].status \notin {"complete", "abandoned"}
        THEN [plans[p] EXCEPT !.status = status, !.updated_at = to_rfc3339(now)]
        ELSE plans[p]]

\* UPDATE plans SET status = ?1, updated_at = ?2 WHERE id = ?3
StatusSet(plan_id, status) ==
    [p \in DOMAIN plans |->
        IF p = plan_id
        THEN [plans[p] EXCEPT !.status = status, !.updated_at = to_rfc3339(now)]
        ELSE plans[p]]

update_plan_status(plan_id, status) ==
    /\ plans' = StatusSet(plan_id, status)
    /\ result' = Ok("update_plan_status", <<plan_id, status>>, None)
    /\ UNCHANGED <<app, plan_interview_entries, now, topicVars, review_history, sessionVars,
                   skill_assessments, sqlite_sequence>>

\* SpecPathSet leaving the status as it is
SpecPathSetOnly(plan_id, path) ==
    [p \in DOMAIN plans |->
        IF p = plan_id
        THEN [plans[p] EXCEPT !.spec_file_path = Some(path),
                              !.updated_at = to_rfc3339(now)]
        ELSE plans[p]]

\* UPDATE plans SET spec_file_path = ?1, status = 'spec_ready', updated_at = ?2 WHERE id = ?3
SpecPathSet(plan_id, path) ==
    [p \in DOMAIN plans |->
        IF p = plan_id
        THEN [plans[p] EXCEPT !.spec_file_path = Some(path), !.status = "spec_ready",
                              !.updated_at = to_rfc3339(now)]
        ELSE plans[p]]

update_plan_spec_path(plan_id, path) ==
    /\ plans' = SpecPathSet(plan_id, path)
    /\ result' = Ok("update_plan_spec_path", <<plan_id, path>>, None)
    /\ UNCHANGED <<app, plan_interview_entries, now, topicVars, review_history, sessionVars,
                   skill_assessments, sqlite_sequence>>

\* EngineerLevelSet writing the level without touching updated_at
EngineerLevelSetSilently(plan_id, level) ==
    [p \in DOMAIN plans |->
        IF p = plan_id
        THEN [plans[p] EXCEPT !.engineer_level = Some(level)]
        ELSE plans[p]]

\* UPDATE plans SET engineer_level = ?1, updated_at = ?2 WHERE id = ?3
EngineerLevelSet(plan_id, level) ==
    [p \in DOMAIN plans |->
        IF p = plan_id
        THEN [plans[p] EXCEPT !.engineer_level = Some(level),
                              !.updated_at = to_rfc3339(now)]
        ELSE plans[p]]

update_plan_engineer_level(plan_id, level) ==
    /\ plans' = EngineerLevelSet(plan_id, level)
    /\ result' = Ok("update_plan_engineer_level", <<plan_id, level>>, None)
    /\ UNCHANGED <<app, plan_interview_entries, now, topicVars, review_history, sessionVars,
                   skill_assessments, sqlite_sequence>>

\* the entries that stay when a plan goes: ON DELETE CASCADE on plan_id
EntriesKept(plan_id) ==
    IF ForeignKeys
    THEN SelectSeq(plan_interview_entries, LAMBDA e : e.plan_id # plan_id)
    ELSE plan_interview_entries

delete_plan(plan_id) ==
    /\ plans' = Restrict(plans, DOMAIN plans \ {plan_id})
    /\ plan_interview_entries' = EntriesKept(plan_id)
    /\ result' = Ok("delete_plan", <<plan_id>>, Some(plan_id \in DOMAIN plans))
    /\ UNCHANGED <<app, now, topicVars, review_history, sessionVars, skill_assessments,
                   sqlite_sequence>>

(***************************************************************************)
(* InterviewCategory, Database::add_interview_entry,                       *)
(* Database::get_interview_entries, get_interview_entries_by_category      *)
(***************************************************************************)
\* InterviewCategory, each variant named by its as_str()
InterviewCategory ==
    {"requirements", "edge_cases", "security", "deployment", "architecture",
     "performance", "testing", "dod", "scope", "dependencies", "risks", "other"}

\* str::to_lowercase on the strings the model passes
to_lowercase(s) ==
    CASE s = "Security" -> "security"
      [] s = "OTHER" -> "other"
      [] OTHER -> s

\* InterviewCategory_from_str with the first variant as the fallback
InterviewCategory_from_str_first(s) ==
    IF to_lowercase(s) \in InterviewCategory THEN Some(to_lowercase(s))
    ELSE Some("requirements")

\* InterviewCategory::from_str: the wildcard arm is Some(Other)
InterviewCategory_from_str(s) ==
    IF to_lowercase(s) \in InterviewCategory THEN Some(to_lowercase(s))
    ELSE Some("other")

add_interview_entry(plan_id, entry_type, content, category) ==
    LET args == <<plan_id, entry_type, content, category>>
        id == sqlite_sequence.plan_interview_entries + 1
    IN  IF ForeignKeys /\ plan_id \notin DOMAIN plans
        THEN /\ result' = Err("add_interview_entry", args, "ConstraintViolation")
             /\ UNCHANGED <<app, planVars, now, topicVars, review_history, sessionVars,
                            skill_assessments, sqlite_sequence>>
        ELSE /\ plan_interview_entries' = Append(plan_interview_entries,
                    [id |-> id, plan_id |-> plan_id, entry_type |-> entry_type,
                     content |-> content, category |-> category,
                     created_at |-> to_rfc3339(now)])
             /\ plans' = [p \in DOMAIN plans |->
                    IF p = plan_id
                    THEN [plans[p] EXCEPT !.updated_at = to_rfc3339(now)]
                    ELSE plans[p]]
             /\ sqlite_sequence' = [sqlite_sequence EXCEPT !.plan_interview_entries = id]
             /\ result' = Ok("add_interview_entry", args, Some(id))
             /\ UNCHANGED <<app, now, topicVars, review_history, sessionVars, skill_assessments>>

\* the positions in plan_interview_entries of the rows a query selects
EntryRows(plan_id, category) ==
    {i \in DOMAIN plan_interview_entries :
        /\ plan_interview_entries[i].plan_id = plan_id
        /\ category # None => plan_interview_entries[i].category = category[1]}

\* the InterviewEntry built from a row: the stored category text is parsed again
InterviewEntry(i) ==
    [plan_interview_entries[i] EXCEPT
        !.category = InterviewCategory_from_str(@)[1]]

\* EntriesInOrder for ORDER BY created_at DESC
EntriesNewestFirst(plan_id, category) ==
    {list \in Perms(EntryRows(plan_id, category)) :
        \A i, j \in DOMAIN list : i < j =>
            ~TextLess(plan_interview_entries[list[i]].created_at,
                      plan_interview_entries[list[j]].created_at)}

\* the rows in an order that ORDER BY created_at ASC allows
EntriesInOrder(plan_id, category) ==
    {list \in Perms(EntryRows(plan_id, category)) :
        \A i, j \in DOMAIN list : i < j =>
            ~TextLess(plan_interview_entries[list[j]].created_at,
                      plan_interview_entries[list[i]].created_at)}

get_interview_entries(plan_id) ==
    \E list \in EntriesInOrder(plan_id, None) :
        /\ result' = Ok("get_interview_entries", <<plan_id>>,
                        [i \in DOMAIN list |-> InterviewEntry(list[i])])
        /\ UNCHANGED <<app, planVars, now, topicVars, review_history, sessionVars,
                       skill_assessments, sqlite_sequence>>

get_interview_entries_by_category(plan_id, category) ==
    \E list \in EntriesInOrder(plan_id, Some(category)) :
        /\ result' = Ok("get_interview_entries_by_category", <<plan_id, category>>,
                        [i \in DOMAIN list |-> InterviewEntry(list[i])])
        /\ UNCHANGED <<app, planVars, now, topicVars, review_history, sessionVars,
                       skill_assessments, sqlite_sequence>>

(***************************************************************************)
(* Database::get_stats                                                     *)
(***************************************************************************)
\* SELECT COUNT(*) FROM review_history, as the highest id ever handed out
TotalReviewsEverWritten == sqlite_sequence.review_history

\* SELECT COUNT(*) FROM review_history
TotalReviews == Len(review_history)

\* SELECT COUNT(*) FROM progress WHERE mastery_level >= 4
Mastered == Cardinality({id \in DOMAIN progress : progress[id].mastery_level >= 4})

\* SELECT COUNT(*) FROM progress WHERE next_review <= datetime('now'): a TEXT
\* comparison of the stored next_review with "YYYY-MM-DD HH:MM:SS"
DueNow ==
    Cardinality({id \in DOMAIN progress :
                    ~TextLess(SqliteNow(now), progress[id].next_review)})

\* the sum AVG(mastery_level) divides by the number of rows
RECURSIVE MasterySum(_)
MasterySum(ids) ==
    IF ids = {} THEN 0
    ELSE LET id == CHOOSE x \in ids : TRUE
         IN  progress[id].mastery_level + MasterySum(ids \ {id})

\* SELECT COALESCE(AVG(mastery_level), 0) FROM progress, as the fraction num/den
AvgMastery ==
    IF DOMAIN progress = {} THEN [num |-> 0, den |-> 1]
    ELSE [num |-> MasterySum(DOMAIN progress), den |-> Cardinality(DOMAIN progress)]

\* the Stats the queries add up to
Stats ==
    [total_topics |-> Cardinality(DOMAIN topics),
     total_reviews |-> TotalReviews,
     mastered |-> Mastered,
     due_now |-> DueNow,
     avg_mastery |-> AvgMastery]

get_stats ==
    /\ result' = Ok("get_stats", <<>>, Stats)
    /\ UNCHANGED <<app, planVars, now, topicVars, review_history, sessionVars,
                   skill_assessments, sqlite_sequence>>

(***************************************************************************)
(* The queries the terminal interface reads its lists with                 *)
(***************************************************************************)
\* Database::get_topics_with_progress: the topics with their progress, ordered
\* by due date, optionally restricted to a tag given as the text typed
get_topics_with_progress(tag_filter) ==
    IF tag_filter = None THEN get_due_topics(None)
    ELSE IF \E t \in tags : Chars(t) = tag_filter[1]
         THEN get_due_topics(Some(CHOOSE t \in tags : Chars(t) = tag_filter[1]))
         ELSE {<<>>}

\* Database::list_plans(None): ORDER BY updated_at DESC
list_plans ==
    {list \in Perms(DOMAIN plans) :
        \A i, j \in DOMAIN list : i < j =>
            ~TextLess(plans[list[i]].updated_at, plans[list[j]].updated_at)}

\* Database::list_sessions(Some(topic_id)): ORDER BY started_at DESC
list_sessions(topic_id) ==
    {list \in Perms({s \in DOMAIN learning_sessions :
                        learning_sessions[s].topic_id = topic_id}) :
        \A i, j \in DOMAIN list : i < j =>
            ~TextLess(learning_sessions[list[i]].started_at,
                      learning_sessions[list[j]].started_at)}

\* the lists get_unaddressed_gaps may return
UnaddressedGapLists(topic_id) ==
    {list \in Perms(UnaddressedRows(topic_id)) :
        \A i, j \in DOMAIN list : i < j => ~GapOrderedBefore(list[j], list[i])}

(***************************************************************************)
(* tui: View, StatefulList, App                                            *)
(***************************************************************************)
View == {"Dashboard", "Topics", "TopicDetail", "Plans", "PlanDetail"}

View_next(view) ==
    CASE view = "Dashboard" -> "Topics"
      [] view = "Topics" -> "Plans"
      [] view = "TopicDetail" -> "Topics"
      [] view = "Plans" -> "Dashboard"
      [] view = "PlanDetail" -> "Plans"

View_prev(view) ==
    CASE view = "Dashboard" -> "Plans"
      [] view = "Topics" -> "Dashboard"
      [] view = "TopicDetail" -> "Topics"
      [] view = "Plans" -> "Topics"
      [] view = "PlanDetail" -> "Plans"

\* StatefulList::with_items; selected is an index counted from 0
with_items(items) ==
    [items |-> items, selected |-> IF items = <<>> THEN None ELSE Some(0)]

\* StatefulList::next stopping at the last item
StatefulList_next_clamped(list) ==
    IF list.items = <<>> THEN list
    ELSE [list EXCEPT !.selected =
            IF list.selected # None
            THEN (IF list.selected[1] >= Len(list.items) - 1
                  THEN Some(Len(list.items) - 1) ELSE Some(list.selected[1] + 1))
            ELSE Some(0)]

\* StatefulList::next
StatefulList_next(list) ==
    IF list.items = <<>> THEN list
    ELSE [list EXCEPT !.selected =
            IF list.selected # None
            THEN (IF list.selected[1] >= Len(list.items) - 1
                  THEN Some(0) ELSE Some(list.selected[1] + 1))
            ELSE Some(0)]

\* StatefulList::previous
StatefulList_previous(list) ==
    IF list.items = <<>> THEN list
    ELSE [list EXCEPT !.selected =
            IF list.selected # None
            THEN (IF list.selected[1] = 0
                  THEN Some(Len(list.items) - 1) ELSE Some(list.selected[1] - 1))
            ELSE Some(0)]

\* StatefulList::selected_item
selected_item(list) ==
    IF list.selected # None /\ list.selected[1] < Len(list.items)
    THEN Some(list.items[list.selected[1] + 1])
    ELSE None

\* App::new; due_topics and recent_sessions, two lists the dashboard draws, are
\* left out
App_new ==
    {[view |-> "Dashboard",
      topics |-> with_items(topics_data),
      plans |-> with_items(plans_data),
      selected_topic |-> None,
      selected_topic_sessions |-> <<>>,
      selected_topic_gaps |-> <<>>,
      selected_plan |-> None,
      selected_plan_entries |-> <<>>,
      stats |-> Stats,
      filter_tag |-> None,
      filter_input |-> <<>>,
      filter_mode |-> FALSE,
      should_quit |-> FALSE] :
        topics_data \in get_topics_with_progress(None), plans_data \in list_plans}

\* App::refresh_data: the Apps it may leave
refresh_data(a) ==
    {[a EXCEPT !.stats = Stats,
               !.topics = with_items(topics_data),
               !.plans = with_items(plans_data)] :
        topics_data \in get_topics_with_progress(a.filter_tag), plans_data \in list_plans}

\* App::apply_filter keeping the list that is on the screen
apply_filter_tag_only(a) ==
    {[a EXCEPT !.filter_tag = IF a.filter_input = <<>> THEN None ELSE Some(a.filter_input)]}

\* App::apply_filter
apply_filter(a) ==
    LET tag == IF a.filter_input = <<>> THEN None ELSE Some(a.filter_input)
    IN  {[a EXCEPT !.filter_tag = tag, !.topics = with_items(topics_data)] :
            topics_data \in get_topics_with_progress(tag)}

\* App::select_topic opening the detail view whether or not an item is selected
select_topic_always(a) ==
    {[a EXCEPT !.view = "TopicDetail"]}

\* App::select_topic
select_topic(a) ==
    LET twp == selected_item(a.topics)
    IN  IF twp # None
        THEN {[a EXCEPT !.selected_topic = twp,
                        !.selected_topic_sessions = sessions,
                        !.selected_topic_gaps = [i \in DOMAIN gaps |-> SessionGap(gaps[i])],
                        !.view = "TopicDetail"] :
                 sessions \in list_sessions(twp[1]), gaps \in UnaddressedGapLists(twp[1])}
        ELSE {a}

\* App::select_plan
select_plan(a) ==
    LET plan == selected_item(a.plans)
    IN  IF plan # None
        THEN {[a EXCEPT !.selected_plan = plan,
                        !.selected_plan_entries =
                            [i \in DOMAIN list |-> InterviewEntry(list[i])],
                        !.view = "PlanDetail"] :
                 list \in EntriesInOrder(plan[1], None)}
        ELSE {a}

\* KeyCode and KeyModifiers
Char(c) == <<"Char", c>>
IsChar(key) == key[1] = "Char"
CONTROL == "CONTROL"
SHIFT == "SHIFT"

\* the filter editor: the first match of App::handle_key, taken while filter_mode
FilterKey(a, key) ==
    CASE key = <<"Esc">> -> {[a EXCEPT !.filter_mode = FALSE, !.filter_input = <<>>]}
      [] key = <<"Enter">> -> apply_filter([a EXCEPT !.filter_mode = FALSE])
      [] key = <<"Backspace">> ->
            {[a EXCEPT !.filter_input =
                IF @ = <<>> THEN @ ELSE SubSeq(@, 1, Len(@) - 1)]}
      [] IsChar(key) -> {[a EXCEPT !.filter_input = Append(@, key[2])]}
      [] OTHER -> {a}

\* the arm of Esc, and of h and Left in a detail view: back to the list
LeaveDetail(a) ==
    CASE a.view = "TopicDetail" -> [a EXCEPT !.view = "Topics", !.selected_topic = None]
      [] a.view = "PlanDetail" -> [a EXCEPT !.view = "Plans", !.selected_plan = None]
      [] OTHER -> a

\* the second match of App::handle_key, its arms in the order of the source
NormalKey(a, key, modifiers) ==
    CASE key = Char("q") -> {[a EXCEPT !.should_quit = TRUE]}
      [] key = Char("r") /\ CONTROL \in modifiers -> refresh_data(a)
      [] key = Char("/") /\ a.view = "Topics" ->
            {[a EXCEPT !.filter_mode = TRUE, !.filter_input = <<>>]}
      [] key = <<"Esc">> ->
            IF a.view \in {"TopicDetail", "PlanDetail"} THEN {LeaveDetail(a)}
            ELSE IF a.view = "Topics" /\ a.filter_tag # None
                 THEN apply_filter([a EXCEPT !.filter_tag = None, !.filter_input = <<>>])
                 ELSE {a}
      [] key \in {Char("h"), <<"Left">>} ->
            IF a.view \in {"TopicDetail", "PlanDetail"} THEN {LeaveDetail(a)}
            ELSE {[a EXCEPT !.view = View_prev(a.view)]}
      [] key \in {Char("l"), <<"Right">>} ->
            CASE a.view = "Topics" -> select_topic(a)
              [] a.view = "Plans" -> select_plan(a)
              [] OTHER -> {[a EXCEPT !.view = View_next(a.view)]}
      [] key = <<"Tab">> ->
            IF SHIFT \in modifiers THEN {[a EXCEPT !.view = View_prev(a.view)]}
            ELSE {[a EXCEPT !.view = View_next(a.view)]}
      [] key = <<"BackTab">> -> {[a EXCEPT !.view = View_prev(a.view)]}
      [] key \in {Char("j"), <<"Down">>} ->
            CASE a.view = "Topics" -> {[a EXCEPT !.topics = StatefulList_next(@)]}
              [] a.view = "Plans" -> {[a EXCEPT !.plans = StatefulList_next(@)]}
              [] OTHER -> {a}
      [] key \in {Char("k"), <<"Up">>} ->
            CASE a.view = "Topics" -> {[a EXCEPT !.topics = StatefulList_previous(@)]}
              [] a.view = "Plans" -> {[a EXCEPT !.plans = StatefulList_previous(@)]}
              [] OTHER -> {a}
      [] key = Char("g") ->
            CASE a.view = "Topics" /\ a.topics.items # <<>> ->
                    {[a EXCEPT !.topics.selected = Some(0)]}
              [] a.view = "Plans" /\ a.plans.items # <<>> ->
                    {[a EXCEPT !.plans.selected = Some(0)]}
              [] OTHER -> {a}
      [] key = Char("G") ->
            CASE a.view = "Topics" /\ a.topics.items # <<>> ->
                    {[a EXCEPT !.topics.selected = Some(Len(a.topics.items) - 1)]}
              [] a.view = "Plans" /\ a.plans.items # <<>> ->
                    {[a EXCEPT !.plans.selected = Some(Len(a.plans.items) - 1)]}
              [] OTHER -> {a}
      [] key = <<"Enter">> ->
            CASE a.view = "Topics" -> select_topic(a)
              [] a.view = "Plans" -> select_plan(a)
              [] OTHER -> {a}
      [] OTHER -> {a}

\* App::handle_key, called by run_app for every key event until should_quit
handle_key(key, modifiers) ==
    /\ ~app.should_quit
    /\ app' \in (IF app.filter_mode THEN FilterKey(app, key)
                 ELSE NormalKey(app, key, modifiers))
    /\ result' = Ok("handle_key", <<key, modifiers>>, None)
    /\ UNCHANGED <<planVars, now, topicVars, review_history, sessionVars,
                   skill_assessments, sqlite_sequence>>

\* run: the App is made from the store as it is, then run_app takes the keys
run ==
    /\ app' \in App_new
    /\ result' = Ok("run", <<>>, None)
    /\ UNCHANGED <<planVars, now, topicVars, review_history, sessionVars,
                   skill_assessments, sqlite_sequence>>

(***************************************************************************)
(* The store and the App after construction.                               *)
(***************************************************************************)
Init ==
    /\ now = 0
    /\ topics = <<>>
    /\ progress = <<>>
    /\ tags = {}
    /\ topic_tags = {}
    /\ review_history = <<>>
    /\ learning_sessions = <<>>
    /\ session_gaps = <<>>
    /\ skill_assessments = <<>>
    /\ plans = <<>>
    /\ plan_interview_entries = <<>>
    /\ sqlite_sequence = [topics |-> 0, review_history |-> 0, learning_sessions |-> 0,
                          session_gaps |-> 0, skill_assessments |-> 0,
                          plans |-> 0, plan_interview_entries |-> 0]
    /\ app \in App_new
    /\ result = NoResult

(***************************************************************************)
(* Inputs of the calls.                                                    *)
(***************************************************************************)
TopicIds == 1 .. MaxTopicId
Outcomes == {"success", "partial", "fail"}
SessionOutcomes == {"success", "partial", "fail", "abandoned"}
SessionTypes == {"feynman"}
Assessments == {<<3, "self">>, <<5, "calibration">>}
CategoryStrings == {"security", "Security", "unknown_category"}
CategoryFilters == {"security", "other"}
PlanStatuses ==
    {"interviewing", "spec_ready", "approved", "in_progress", "complete", "abandoned"}

(***************************************************************************)
(* Spec: topics come and go, reviews carry notes.                          *)
(***************************************************************************)
AddTopic ==
    /\ sqlite_sequence.topics < MaxTopicId
    /\ \E name \in Names : add_topic(name, None, <<>>)

DeleteTopic == \E id \in TopicIds : delete_topic(id)

RecordReview ==
    /\ sqlite_sequence.review_history < MaxReviews
    /\ \E id \in TopicIds, outcome \in Outcomes, notes \in NotesInputs :
          record_review(id, outcome, notes)

Next == AddTopic \/ DeleteTopic \/ RecordReview

Spec == Init /\ [][Next]_vars

(***************************************************************************)
(* SpecMastery: one topic, a long run of reviews, the clock running.       *)
(***************************************************************************)
MasteryTick == now < MaxDeepTime /\ Advance

MasteryAddTopic == sqlite_sequence.topics = 0 /\ add_topic("a", None, <<>>)

MasteryReview ==
    /\ sqlite_sequence.review_history < MaxDeepReviews
    /\ \E outcome \in Outcomes : record_review(1, outcome, None)

NextMastery == MasteryTick \/ MasteryAddTopic \/ MasteryReview

SpecMastery == Init /\ [][NextMastery]_vars

(***************************************************************************)
(* SpecSelect: tagged topics, reviews of the first one, days passing, the  *)
(* selector.                                                               *)
(***************************************************************************)
SelectTick == now < MaxSelectTime /\ Advance

SelectAddTopic ==
    /\ sqlite_sequence.topics < MaxTopicId
    /\ \E topic \in TaggedTopics : add_topic(topic[1], None, topic[2])

SelectReview ==
    /\ sqlite_sequence.review_history < MaxSelectReviews
    /\ \E outcome \in Outcomes : record_review(1, outcome, None)

GetNextTopic ==
    \E tag_filter \in TagFilters, k \in 0 .. RandSteps - 1 : get_next_topic(tag_filter, k)

NextSelect == SelectTick \/ SelectAddTopic \/ SelectReview \/ GetNextTopic

SpecSelect == Init /\ [][NextSelect]_vars

(***************************************************************************)
(* SpecSession: sessions and skill assessments next to reviews. A call     *)
(* names a row that exists or the first id not handed out yet.             *)
(***************************************************************************)
KnownTopicIds == DOMAIN topics \cup {sqlite_sequence.topics + 1}
KnownSessionIds == DOMAIN learning_sessions \cup {sqlite_sequence.learning_sessions + 1}

SessionAddTopic == sqlite_sequence.topics < MaxTopicId /\ add_topic("a", None, <<>>)

SessionReview ==
    /\ sqlite_sequence.review_history < MaxSessionReviews
    /\ \E id \in KnownTopicIds, outcome \in Outcomes : record_review(id, outcome, None)

UpdateSkillLevel ==
    /\ sqlite_sequence.skill_assessments < MaxAssessments
    /\ \E id \in KnownTopicIds, a \in Assessments :
          update_skill_level(id, a[1], a[2], None)

StartSession ==
    /\ sqlite_sequence.learning_sessions < MaxSessions
    /\ \E id \in KnownTopicIds, session_type \in SessionTypes :
          start_session(id, session_type)

EndSession ==
    \E id \in KnownSessionIds, outcome \in SessionOutcomes, text \in EndTexts :
          end_session(id, outcome, text[1], text[2])

NextSession ==
    SessionAddTopic \/ SessionReview \/ UpdateSkillLevel \/ StartSession \/ EndSession

SpecSession == Init /\ [][NextSession]_vars

(***************************************************************************)
(* SpecGaps: sessions of two topics at different times, their gaps, the    *)
(* gaps marked addressed.                                                  *)
(***************************************************************************)
KnownGapIds == DOMAIN session_gaps \cup {sqlite_sequence.session_gaps + 1}

GapTick == now < MaxGapTime /\ Advance

GapAddTopic ==
    /\ sqlite_sequence.topics < MaxTopicId
    /\ add_topic(IF sqlite_sequence.topics = 0 THEN "a" ELSE "b", None, <<>>)

GapStartSession ==
    /\ sqlite_sequence.learning_sessions < MaxGapSessions
    /\ \E id \in DOMAIN topics : start_session(id, "feynman")

AddSessionGap ==
    /\ sqlite_sequence.session_gaps < MaxGaps
    /\ \E id \in DOMAIN learning_sessions : add_session_gap(id, "g")

MarkGapAddressed == \E id \in KnownGapIds : mark_gap_addressed(id)

GetUnaddressedGaps == \E id \in DOMAIN topics : get_unaddressed_gaps(id)

NextGaps ==
    \/ GapTick \/ GapAddTopic \/ GapStartSession
    \/ AddSessionGap \/ MarkGapAddressed \/ GetUnaddressedGaps

SpecGaps == Init /\ [][NextGaps]_vars

(***************************************************************************)
(* SpecSkill: assessments of two topics interleaved with reviews, the      *)
(* clock running.                                                          *)
(***************************************************************************)
SkillTick == now < MaxSkillTime /\ Advance

SkillAddTopic ==
    /\ sqlite_sequence.topics < MaxTopicId
    /\ add_topic(IF sqlite_sequence.topics = 0 THEN "a" ELSE "b", None, <<>>)

SkillAssess ==
    /\ sqlite_sequence.skill_assessments < MaxSkillAssessments
    /\ \E id \in DOMAIN topics, a \in Assessments :
          update_skill_level(id, a[1], a[2], None)

SkillReview ==
    /\ sqlite_sequence.review_history < MaxSkillReviews
    /\ \E id \in DOMAIN topics : record_review(id, "success", None)

NextSkill == SkillTick \/ SkillAddTopic \/ SkillAssess \/ SkillReview

SpecSkill == Init /\ [][NextSkill]_vars

(***************************************************************************)
(* SpecPlanStatus: plans, the status setter and the spec path setter, the  *)
(* clock running.                                                          *)
(***************************************************************************)
KnownPlanIds == DOMAIN plans \cup {sqlite_sequence.plans + 1}

StatusTick == now < MaxStatusTime /\ Advance

StatusCreatePlan == sqlite_sequence.plans < MaxStatusPlans /\ create_plan("t", "d")

UpdatePlanStatus ==
    \E id \in KnownPlanIds, status \in PlanStatuses : update_plan_status(id, status)

UpdatePlanSpecPath == \E id \in KnownPlanIds : update_plan_spec_path(id, "spec.md")

NextPlanStatus == StatusTick \/ StatusCreatePlan \/ UpdatePlanStatus \/ UpdatePlanSpecPath

SpecPlanStatus == Init /\ [][NextPlanStatus]_vars

(***************************************************************************)
(* SpecEntries: interview entries of a plan. The caller parses the         *)
(* category string it was given; the string is kept as the entry's content.*)
(***************************************************************************)
EntriesTick == now < MaxEntryTime /\ Advance

EntriesCreatePlan == sqlite_sequence.plans < MaxEntryPlans /\ create_plan("t", "d")

AddInterviewEntry ==
    /\ sqlite_sequence.plan_interview_entries < MaxEntries
    /\ \E id \in KnownPlanIds, s \in CategoryStrings :
          LET category == InterviewCategory_from_str(s)
          IN  /\ IsSome(category)
              /\ add_interview_entry(id, "question", s, category[1])

GetInterviewEntries == \E id \in KnownPlanIds : get_interview_entries(id)

GetInterviewEntriesByCategory ==
    \E id \in KnownPlanIds, category \in CategoryFilters :
        get_interview_entries_by_category(id, category)

DeletePlan == \E id \in KnownPlanIds : delete_plan(id)

NextEntries ==
    \/ EntriesTick \/ EntriesCreatePlan \/ AddInterviewEntry \/ GetInterviewEntries
    \/ GetInterviewEntriesByCategory \/ DeletePlan

SpecEntries == Init /\ [][NextEntries]_vars

(***************************************************************************)
(* SpecCascade: two topics and two plans with rows in every dependent      *)
(* table, then the deletes.                                                *)
(***************************************************************************)
CascadeAddTopic ==
    /\ sqlite_sequence.topics < MaxTopicId
    /\ \E topic \in TaggedTopics : add_topic(topic[1], None, topic[2])

CascadeReview ==
    /\ sqlite_sequence.review_history < MaxCascadeRows
    /\ sqlite_sequence.review_history + 1 \in DOMAIN topics
    /\ record_review(sqlite_sequence.review_history + 1, "success", None)

CascadeAssess ==
    /\ sqlite_sequence.skill_assessments < MaxCascadeRows
    /\ sqlite_sequence.skill_assessments + 1 \in DOMAIN topics
    /\ update_skill_level(sqlite_sequence.skill_assessments + 1, 3, "self", None)

CascadeStartSession ==
    /\ sqlite_sequence.learning_sessions < MaxCascadeRows
    /\ sqlite_sequence.learning_sessions + 1 \in DOMAIN topics
    /\ start_session(sqlite_sequence.learning_sessions + 1, "feynman")

CascadeAddGap ==
    /\ sqlite_sequence.session_gaps < MaxCascadeRows
    /\ sqlite_sequence.session_gaps + 1 \in DOMAIN learning_sessions
    /\ add_session_gap(sqlite_sequence.session_gaps + 1, "g")

CascadeCreatePlan == sqlite_sequence.plans < MaxCascadeRows /\ create_plan("t", "d")

CascadeAddEntry ==
    /\ sqlite_sequence.plan_interview_entries < MaxCascadeRows
    /\ sqlite_sequence.plan_interview_entries + 1 \in DOMAIN plans
    /\ add_interview_entry(sqlite_sequence.plan_interview_entries + 1, "note", "c", "other")

CascadeDeleteTopic == \E id \in KnownTopicIds : delete_topic(id)

CascadeDeletePlan == \E id \in KnownPlanIds : delete_plan(id)

NextCascade ==
    \/ CascadeAddTopic \/ CascadeReview \/ CascadeAssess \/ CascadeStartSession
    \/ CascadeAddGap \/ CascadeCreatePlan \/ CascadeAddEntry
    \/ CascadeDeleteTopic \/ CascadeDeletePlan

SpecCascade == Init /\ [][NextCascade]_vars

(***************************************************************************)
(* SpecTopics: topics with tags created, reviewed and deleted over time,   *)
(* names offered again.                                                    *)
(***************************************************************************)
TopicsTick == now < MaxTopicsTime /\ Advance

TopicsAddTopic ==
    /\ sqlite_sequence.topics < MaxTopicId
    /\ \E topic \in NewTopics : add_topic(topic[1], None, topic[2])

TopicsReview ==
    /\ sqlite_sequence.review_history < MaxTopicsReviews
    /\ \E id \in DOMAIN topics, outcome \in Outcomes : record_review(id, outcome, None)

TopicsDeleteTopic == \E id \in KnownTopicIds : delete_topic(id)

NextTopics == TopicsTick \/ TopicsAddTopic \/ TopicsReview \/ TopicsDeleteTopic

SpecTopics == Init /\ [][NextTopics]_vars

(***************************************************************************)
(* SpecMissing: one session, one gap and one plan, and the updating calls  *)
(* made with ids that exist and with ids that do not.                      *)
(***************************************************************************)
MissingAddTopic == sqlite_sequence.topics < MaxMissingRows /\ add_topic("a", None, <<>>)

MissingStartSession ==
    /\ sqlite_sequence.learning_sessions < MaxMissingRows
    /\ \E id \in DOMAIN topics : start_session(id, "feynman")

MissingAddGap ==
    /\ sqlite_sequence.session_gaps < MaxMissingRows
    /\ \E id \in DOMAIN learning_sessions : add_session_gap(id, "g")

MissingCreatePlan == sqlite_sequence.plans < MaxMissingRows /\ create_plan("t", "d")

MissingEndSession ==
    \E id \in KnownSessionIds, outcome \in SessionOutcomes :
        end_session(id, outcome, None, None)

MissingMarkGapAddressed == \E id \in KnownGapIds : mark_gap_addressed(id)

MissingUpdatePlanStatus == \E id \in KnownPlanIds : update_plan_status(id, "approved")

MissingUpdatePlanEngineerLevel ==
    \E id \in KnownPlanIds : update_plan_engineer_level(id, "senior")

MissingUpdatePlanSpecPath == \E id \in KnownPlanIds : update_plan_spec_path(id, "spec.md")

NextMissing ==
    \/ MissingAddTopic \/ MissingStartSession \/ MissingAddGap \/ MissingCreatePlan
    \/ MissingEndSession \/ MissingMarkGapAddressed \/ MissingUpdatePlanStatus
    \/ MissingUpdatePlanEngineerLevel \/ MissingUpdatePlanSpecPath

SpecMissing == Init /\ [][NextMissing]_vars

(***************************************************************************)
(* SpecEnd: a session started, ended and ended again while the clock runs. *)
(***************************************************************************)
EndTick == now < MaxEndTime /\ Advance

EndAddTopic == sqlite_sequence.topics < MaxEndSessions /\ add_topic("a", None, <<>>)

EndStartSession ==
    /\ sqlite_sequence.learning_sessions < MaxEndSessions
    /\ \E id \in DOMAIN topics : start_session(id, "feynman")

EndEndSession ==
    \E id \in KnownSessionIds, outcome \in SessionOutcomes, s \in EndTexts, n \in EndTexts :
          end_session(id, outcome, s[1], n[2])

EndDeleteTopic == \E id \in DOMAIN topics : delete_topic(id)

NextEnd == EndTick \/ EndAddTopic \/ EndStartSession \/ EndEndSession \/ EndDeleteTopic

SpecEnd == Init /\ [][NextEnd]_vars

(***************************************************************************)
(* SpecTouch: every call that writes a plan's updated_at, the clock        *)
(* running.                                                                *)
(***************************************************************************)
TouchTick == now < MaxTouchTime /\ Advance

TouchCreatePlan == sqlite_sequence.plans < MaxTouchPlans /\ create_plan("t", "d")

TouchAddInterviewEntry ==
    /\ sqlite_sequence.plan_interview_entries < MaxTouchEntries
    /\ \E id \in KnownPlanIds : add_interview_entry(id, "question", "c", "scope")

TouchUpdatePlanStatus ==
    \E id \in KnownPlanIds, status \in {"approved", "interviewing"} :
        update_plan_status(id, status)

TouchUpdatePlanEngineerLevel ==
    \E id \in KnownPlanIds : update_plan_engineer_level(id, "senior")

TouchUpdatePlanSpecPath == \E id \in KnownPlanIds : update_plan_spec_path(id, "spec.md")

NextTouch ==
    \/ TouchTick \/ TouchCreatePlan \/ TouchAddInterviewEntry \/ TouchUpdatePlanStatus
    \/ TouchUpdatePlanEngineerLevel \/ TouchUpdatePlanSpecPath

SpecTouch == Init /\ [][NextTouch]_vars

(***************************************************************************)
(* SpecOrder: entries of two plans read back. Utc::now() has nanosecond    *)
(* resolution and a call takes longer than that, so every                  *)
(* add_interview_entry reads a later instant than the one before it.       *)
(***************************************************************************)
OrderTick == now < MaxOrderTime /\ Advance

OrderCreatePlan == sqlite_sequence.plans < MaxOrderPlans /\ create_plan("t", "d")

OrderAddInterviewEntry ==
    /\ sqlite_sequence.plan_interview_entries < MaxOrderEntries
    /\ \A i \in DOMAIN plan_interview_entries :
          parse_from_rfc3339(plan_interview_entries[i].created_at)[1] < now
    /\ \E id \in DOMAIN plans, category \in {"security", "scope"} :
          add_interview_entry(id, "question", "c", category)

OrderGetInterviewEntries == \E id \in KnownPlanIds : get_interview_entries(id)

OrderGetInterviewEntriesByCategory ==
    \E id \in KnownPlanIds, category \in {"security", "scope"} :
        get_interview_entries_by_category(id, category)

OrderDeletePlan == \E id \in DOMAIN plans : delete_plan(id)

NextOrder ==
    \/ OrderTick \/ OrderCreatePlan \/ OrderAddInterviewEntry \/ OrderGetInterviewEntries
    \/ OrderGetInterviewEntriesByCategory \/ OrderDeletePlan

SpecOrder == Init /\ [][NextOrder]_vars

(***************************************************************************)
(* SpecDue: two topics, one review, the statistics read while the clock    *)
(* runs over two days.                                                     *)
(***************************************************************************)
DueTick == now < MaxDueTime /\ Advance

DueAddTopic ==
    /\ sqlite_sequence.topics < MaxTopicId
    /\ add_topic(IF sqlite_sequence.topics = 0 THEN "a" ELSE "b", None, <<>>)

DueReview ==
    /\ sqlite_sequence.review_history < MaxDueReviews
    /\ \E id \in DOMAIN topics, outcome \in Outcomes : record_review(id, outcome, None)

GetStats == get_stats

NextDue == DueTick \/ DueAddTopic \/ DueReview \/ GetStats

SpecDue == Init /\ [][NextDue]_vars

(***************************************************************************)
(* SpecStats: reviews of two topics, topics deleted, the statistics read.  *)
(***************************************************************************)
StatsAddTopic ==
    /\ sqlite_sequence.topics < MaxTopicId
    /\ add_topic(IF sqlite_sequence.topics = 0 THEN "a" ELSE "b", None, <<>>)

StatsReview ==
    /\ sqlite_sequence.review_history < MaxStatsReviews
    /\ \E id \in KnownTopicIds, outcome \in Outcomes : record_review(id, outcome, None)

StatsDeleteTopic == \E id \in DOMAIN topics : delete_topic(id)

StatsGetStats == get_stats

NextStats == StatsAddTopic \/ StatsReview \/ StatsDeleteTopic \/ StatsGetStats

SpecStats == Init /\ [][NextStats]_vars

(***************************************************************************)
(* SpecTui: topics and plans are added, then the terminal interface is     *)
(* started and handed every key event run_app can read.                    *)
(***************************************************************************)
Keys ==
    {<<"Esc">>, <<"Enter">>, <<"Backspace">>, <<"Tab">>, <<"BackTab">>, <<"Left">>,
     <<"Right">>, <<"Up">>, <<"Down">>, <<"F1">>}
    \cup {Char(c) : c \in {"q", "r", "/", "h", "l", "j", "k", "g", "G"}}

KeyEvents ==
    {<<key, {}>> : key \in Keys}
    \cup {<<Char("r"), {CONTROL}>>, <<Char("q"), {CONTROL}>>, <<<<"Tab">>, {SHIFT}>>}

TuiTopics == <<<<"a", <<"r">>>>, <<"b", <<>>>>, <<"c", <<"r">>>>, <<"d", <<>>>>>>

\* the interface is started once, on the store as the command line left it
Running == result.op \in {"run", "handle_key"}

TuiAddTopic ==
    /\ ~Running
    /\ sqlite_sequence.topics < MaxTuiTopics
    /\ sqlite_sequence.topics < Len(TuiTopics)
    /\ LET topic == TuiTopics[sqlite_sequence.topics + 1]
       IN  add_topic(topic[1], None, topic[2])

TuiCreatePlan == ~Running /\ sqlite_sequence.plans < MaxTuiPlans /\ create_plan("t", "d")

TuiRun == ~Running /\ run

\* the chars typed into the filter editor: q, and r, the one tag there is to find
TypedChars == {"q", "r"}

HandleKey ==
    \E event \in KeyEvents :
        /\ Running
        /\ app.filter_mode /\ IsChar(event[1]) =>
              /\ Len(app.filter_input) < MaxFilterLen
              /\ event[1][2] \in TypedChars
        /\ handle_key(event[1], event[2])

NextTui == TuiAddTopic \/ TuiCreatePlan \/ TuiRun \/ HandleKey

SpecTui == Init /\ [][NextTui]_vars

(***************************************************************************)
(* The claims.                                                             *)
(***************************************************************************)
ReviewOk(r) == r.op = "record_review" /\ r.status = "Ok"

\* C1: after any sequence of add_topic and record_review calls with outcomes in
\* {Success, Partial, Fail}, every topic's Progress has 0 <= mastery_level <= 5
\* and times_succeeded <= times_reviewed.
C1_MasteryInRange ==
    \A id \in DOMAIN progress :
        /\ progress[id].mastery_level >= 0
        /\ progress[id].mastery_level <= 5
        /\ progress[id].times_succeeded <= progress[id].times_reviewed

\* a Success review arrived at the ceiling: more successes than levels
C1_Witness ==
    \E id \in DOMAIN progress :
        /\ progress[id].mastery_level = 5
        /\ progress[id].times_succeeded > 5
        /\ ReviewOk(result) /\ result.args[2] = "success"

\* the interval table as the claim gives it
IntervalTable(level) ==
    IF level \in 0 .. 5 THEN <<1, 2, 4, 7, 14, 30>>[level + 1] ELSE 30

\* C2: record_review on a topic at mastery m sets: Success -> mastery min(m+1, 5),
\* interval table[new mastery]; Partial -> mastery m, interval max(1, table[m] div 2);
\* Fail -> mastery max(m-1, 0), interval 1 day; table = {0:1, 1:2, 2:4, 3:7, 4:14,
\* 5:30}, any other level maps to 30; next_review = review time + interval days.
C2_ReviewTransition ==
    [][ReviewOk(result') =>
          LET id == result'.args[1]
              outcome == result'.args[2]
              m == progress[id].mastery_level
              new_m == CASE outcome = "success" -> Min(m + 1, 5)
                         [] outcome = "partial" -> m
                         [] outcome = "fail" -> Max(m - 1, 0)
              interval == CASE outcome = "success" -> IntervalTable(new_m)
                            [] outcome = "partial" -> Max(1, IntervalTable(m) \div 2)
                            [] outcome = "fail" -> 1
          IN  /\ progress'[id].mastery_level = new_m
              /\ progress'[id].next_review = to_rfc3339(now + interval * TicksPerDay)
              /\ \A level \in -2 .. 8 : calculate_interval(level) = IntervalTable(level)
       ]_vars

\* a Partial review at the top level (interval 30 div 2), after time has passed
C2_Witness ==
    /\ ReviewOk(result) /\ result.args[2] = "partial"
    /\ progress[result.args[1]].mastery_level = 5
    /\ now > 0
    /\ progress[result.args[1]].next_review = to_rfc3339(now + 15 * TicksPerDay)

\* C3: every record_review call that succeeds increases times_reviewed by exactly 1,
\* increases times_succeeded by exactly 1 for Success and leaves it unchanged for
\* Partial and Fail, and sets last_reviewed to the review time.
C3_ReviewCounters ==
    [][ReviewOk(result') =>
          LET id == result'.args[1]
              outcome == result'.args[2]
          IN  /\ progress'[id].times_reviewed = progress[id].times_reviewed + 1
              /\ progress'[id].times_succeeded =
                     progress[id].times_succeeded + (IF outcome = "success" THEN 1 ELSE 0)
              /\ progress'[id].last_reviewed = Some(to_rfc3339(now))
       ]_vars

\* a Partial review after a Success, at a later time
C3_Witness ==
    /\ ReviewOk(result) /\ result.args[2] = "partial"
    /\ progress[result.args[1]].times_reviewed > 1
    /\ progress[result.args[1]].times_succeeded = 1
    /\ progress[result.args[1]].last_reviewed = Some(to_rfc3339(now))
    /\ now > 0

\* C4 as claimed: record_review replaces the notes only if the caller supplied a
\* non-empty notes value; absent or empty notes leave the stored notes as they were.
C4_NotesKeptUnlessNonEmpty ==
    [][ReviewOk(result') =>
          LET id == result'.args[1]
              notes == result'.args[3]
          IN  IF notes # None /\ notes # Some("")
              THEN progress'[id].notes = notes
              ELSE progress'[id].notes = progress[id].notes
       ]_vars

\* C4 as amended: record_review replaces the notes whenever the caller supplied a
\* notes value, the empty string included; only absent notes (None) leave the stored
\* notes as they were.
C4_NotesKeptUnlessSupplied ==
    [][ReviewOk(result') =>
          LET id == result'.args[1]
              notes == result'.args[3]
          IN  IF notes # None
              THEN progress'[id].notes = notes
              ELSE progress'[id].notes = progress[id].notes
       ]_vars

\* a review without notes on a topic whose earlier review left notes
C4_Witness ==
    /\ ReviewOk(result) /\ result.args[3] = None
    /\ progress[result.args[1]].notes = Some("n1")

\* C5: record_review writes the history entry before it reads Progress: every call
\* adds exactly one history entry, and a call for a topic id whose progress row is
\* missing fails with NotFound (QueryReturnedNoRows) with its entry present.
C5_HistoryWrittenFirst ==
    [][result'.op = "record_review" =>
          /\ Len(review_history') = Len(review_history) + 1
          /\ review_history'[Len(review_history')].topic_id = result'.args[1]
          /\ result'.args[1] \notin DOMAIN progress =>
                 result'.status = "QueryReturnedNoRows"
       ]_vars

SelectDone(r) == r.op = "get_next_topic"

\* the candidate set as the claim gives it: all topics, or the topics holding the tag
HoldingTag(tag_filter) ==
    IF tag_filter = None THEN DOMAIN topics
    ELSE {id \in DOMAIN topics : <<id, tag_filter[1]>> \in topic_tags}

\* C6: next_topic(tag_filter) returns nothing if and only if the candidate set (all
\* topics, or the topics holding the tag) is empty; otherwise, for every draw, it
\* returns a member of that set.
C6_SelectsCandidate ==
    SelectDone(result) =>
        LET candidates == HoldingTag(result.args[1])
            chosen == result.value.chosen
        IN  /\ chosen = None <=> candidates = {}
            /\ chosen # None => chosen[1] \in candidates

\* a filtered call returned the tagged topic while an untagged one exists
C6_Witness ==
    /\ SelectDone(result)
    /\ result.args[1] = Some("rust")
    /\ result.value.chosen # None
    /\ \E id \in DOMAIN topics : <<id, "rust">> \notin topic_tags

\* whole days elapsed from the stored next_review to t, whatever wrote it
DaysSince(next_review, t) == IF t > next_review.t THEN (t - next_review.t) \div TicksPerDay ELSE 0

\* C7: in next_topic the weight of every candidate that has a next_review is
\* (max(0, whole days from next_review to now) + 1) * (6 - mastery_level), for
\* never-reviewed and reviewed topics alike, and every weight is at least 1.
C7_WeightFormula ==
    SelectDone(result) =>
        \A i \in DOMAIN result.value.topics :
            LET p == progress[result.value.topics[i]]
            IN  /\ result.value.weights[i] =
                       (DaysSince(p.next_review, now) + 1) * (6 - p.mastery_level)
                /\ result.value.weights[i] >= 1

\* the sum of the first i weights
RECURSIVE PartialSum(_, _)
PartialSum(weights, i) == IF i = 0 THEN 0 ELSE PartialSum(weights, i - 1) + weights[i]

\* C8: with the candidates listed by stored next_review ascending, then
\* mastery_level ascending, weights w_1..w_n and a draw r in
\* [0, w_1+...+w_n), next_topic returns the first candidate i with
\* r - (w_1+...+w_i) <= 0 (so candidate i is returned exactly for the draws in
\* (w_1+...+w_(i-1), w_1+...+w_i], a share w_i of the total), and the scan never
\* ends without a hit.
C8_FirstHitInOrder ==
    (SelectDone(result) /\ result.value.topics # <<>>) =>
        LET list == result.value.topics
            w == result.value.weights
            total == PartialSum(w, Len(w))
            r == result.args[2] * total         \* the draw, in units of 1 / RandSteps
            hits == {i \in DOMAIN w : r - RandSteps * PartialSum(w, i) <= 0}
        IN  /\ \A i, j \in DOMAIN list : i < j => ~OrderedBefore(list[j], list[i])
            /\ hits # {}
            /\ \E i \in hits :
                  /\ \A j \in hits : i <= j
                  /\ result.value.chosen = Some(list[i])
                  /\ i > 1 => r > RandSteps * PartialSum(w, i - 1)

\* the second of two candidates of different weight was returned
C8_Witness ==
    /\ SelectDone(result)
    /\ Len(result.value.topics) = 2
    /\ result.value.weights[1] # result.value.weights[2]
    /\ result.value.chosen = Some(result.value.topics[2])

\* C9: start_session creates a session in the Active state (ended_at and outcome
\* unset) whose skill_level_at_start is the topic's Progress.skill_level at the
\* moment of the call, and no later call changes the snapshot stored in a session.
C9_SkillSnapshot ==
    [][/\ (result'.op = "start_session" /\ result'.status = "Ok") =>
             LET id == result'.value[1]
             IN  /\ id \notin DOMAIN learning_sessions
                 /\ learning_sessions'[id].ended_at = None
                 /\ learning_sessions'[id].outcome = None
                 /\ learning_sessions'[id].skill_level_at_start =
                        Some(progress[result'.args[1]].skill_level)
       /\ \A id \in DOMAIN learning_sessions \cap DOMAIN learning_sessions' :
             learning_sessions'[id].skill_level_at_start =
                learning_sessions[id].skill_level_at_start
      ]_vars

\* a session started after an assessment holds its level; one started before holds
\* the old level although the topic has moved on
C9_Witness ==
    \E id \in DOMAIN learning_sessions :
        LET s == learning_sessions[id]
        IN  /\ s.skill_level_at_start = Some(0)
            /\ progress[s.topic_id].skill_level = 5
            /\ result.op = "update_skill_level"

\* C10: end_session with any outcome leaves every field of every Progress row and
\* the review history unchanged.
C10_EndSessionFrame ==
    [][result'.op = "end_session" =>
          /\ progress' = progress
          /\ review_history' = review_history
      ]_vars

\* an existing session was ended with outcome success and its topic has no review
C10_Witness ==
    /\ result.op = "end_session"
    /\ result.args[1] \in DOMAIN learning_sessions
    /\ learning_sessions[result.args[1]].outcome = Some("success")
    /\ progress[learning_sessions[result.args[1]].topic_id].times_reviewed = 0
    /\ review_history = <<>>

\* every variable of the store, the clock and the id counters included
store == <<now, topics, progress, tags, topic_tags, review_history, learning_sessions,
           session_gaps, skill_assessments, plans, plan_interview_entries,
           sqlite_sequence>>

\* C11: a gap is created with addressed = false; mark_addressed sets it to true;
\* mark_addressed on an already-addressed gap returns success and leaves the
\* whole store unchanged; no operation sets addressed back from true to false.
C11_AddressedOnlyRises ==
    [][/\ (result'.op = "add_session_gap" /\ result'.status = "Ok") =>
             /\ result'.value[1] \notin DOMAIN session_gaps
             /\ session_gaps'[result'.value[1]].addressed = FALSE
       /\ (result'.op = "mark_gap_addressed" /\ result'.args[1] \in DOMAIN session_gaps) =>
             /\ result'.status = "Ok"
             /\ session_gaps'[result'.args[1]].addressed = TRUE
             /\ session_gaps[result'.args[1]].addressed => store' = store
       /\ \A g \in DOMAIN session_gaps \cap DOMAIN session_gaps' :
             session_gaps[g].addressed => session_gaps'[g].addressed
      ]_vars

\* a gap was marked addressed while another gap stays unaddressed
C11_Witness ==
    /\ result.op = "mark_gap_addressed"
    /\ result.args[1] \in DOMAIN session_gaps
    /\ session_gaps[result.args[1]].addressed
    /\ \E g \in DOMAIN session_gaps : ~session_gaps[g].addressed

\* the topic and the start time of the session a gap belongs to
GapTopic(g) == learning_sessions[session_gaps[g].session_id].topic_id
GapStart(g) == learning_sessions[session_gaps[g].session_id].started_at.t

\* C12: unaddressed_gaps(topic) returns exactly the gaps with addressed = false
\* that belong to a session of that topic, each once, ordered by their session's
\* start time with the most recent session first.
C12_UnaddressedGapsOfTopic ==
    result.op = "get_unaddressed_gaps" =>
        LET list == result.value
            ids == {list[i].id : i \in DOMAIN list}
        IN  /\ ids = {g \in DOMAIN session_gaps :
                         ~session_gaps[g].addressed /\ GapTopic(g) = result.args[1]}
            /\ Cardinality(ids) = Len(list)
            /\ \A i \in DOMAIN list :
                  /\ list[i].addressed = FALSE
                  /\ list[i].session_id = session_gaps[list[i].id].session_id
            /\ \A i, j \in DOMAIN list :
                  i < j => GapStart(list[i].id) >= GapStart(list[j].id)

\* two gaps of two sessions started at different times were returned, the gap
\* of the later session first although it was added last
C12_Witness ==
    /\ result.op = "get_unaddressed_gaps"
    /\ Len(result.value) = 2
    /\ GapStart(result.value[1].id) > GapStart(result.value[2].id)
    /\ result.value[1].id > result.value[2].id
    /\ Cardinality(DOMAIN topics) = 2

\* the assessment records of one topic, oldest first
AssessmentsOf(topic_id) == SelectSeq(skill_assessments, LAMBDA r : r.topic_id = topic_id)

\* C13: update_skill appends exactly one assessment record whose previous_level is
\* the topic's skill_level before the call and whose new_level is the argument,
\* then sets Progress.skill_level = new_level, assessment_method = method and
\* last_assessed = now; hence in a topic's assessment history every record's
\* previous_level is the new_level of the record before it (0 for the first).
C13_AssessmentChain ==
    /\ [][(result'.op = "update_skill_level" /\ result'.status = "Ok") =>
             LET id == result'.args[1]
                 rec == skill_assessments'[Len(skill_assessments')]
             IN  /\ Len(skill_assessments') = Len(skill_assessments) + 1
                 /\ SubSeq(skill_assessments', 1, Len(skill_assessments)) = skill_assessments
                 /\ rec.topic_id = id
                 /\ rec.previous_level = Some(progress[id].skill_level)
                 /\ rec.new_level = result'.args[2]
                 /\ progress'[id].skill_level = result'.args[2]
                 /\ progress'[id].assessment_method = result'.args[3]
                 /\ progress'[id].last_assessed # None
                 /\ progress'[id].last_assessed[1].t = now
          ]_vars
    /\ [](\A id \in DOMAIN topics :
             LET h == AssessmentsOf(id)
             IN  \A i \in DOMAIN h :
                    h[i].previous_level = Some(IF i = 1 THEN 0 ELSE h[i - 1].new_level))

\* a topic assessed twice at different levels, another topic assessed in between
C13_Witness ==
    /\ Len(skill_assessments) = 3
    /\ skill_assessments[1].topic_id = skill_assessments[3].topic_id
    /\ skill_assessments[2].topic_id # skill_assessments[1].topic_id
    /\ skill_assessments[1].new_level = 3
    /\ skill_assessments[3].new_level = 5
    /\ now > 0

\* the fields of a Progress row on each axis
SkillAxis(p) == <<p.skill_level, p.assessment_method, p.last_assessed>>
MasteryAxis(p) ==
    <<p.mastery_level, p.times_reviewed, p.times_succeeded, p.last_reviewed,
      p.next_review, p.notes>>

\* C14: record_review never changes skill_level, assessment_method or
\* last_assessed, and update_skill never changes mastery_level, times_reviewed,
\* times_succeeded, last_reviewed, next_review or notes, of any topic.
C14_SkillMasteryIndependent ==
    [][/\ result'.op = "record_review" =>
             \A id \in DOMAIN progress :
                 id \in DOMAIN progress' /\ SkillAxis(progress'[id]) = SkillAxis(progress[id])
       /\ result'.op = "update_skill_level" =>
             \A id \in DOMAIN progress :
                 id \in DOMAIN progress' /\ MasteryAxis(progress'[id]) = MasteryAxis(progress[id])
      ]_vars

\* a topic both assessed and reviewed, the review coming last
C14_Witness ==
    /\ result.op = "record_review"
    /\ result.status = "Ok"
    /\ progress[result.args[1]].skill_level = 5
    /\ progress[result.args[1]].mastery_level = 1

\* C15: a plan is created in status Interviewing, and set_status(plan, s) on an
\* existing plan succeeds and leaves the plan in status s, for each of the 6
\* statuses s and every current status (Complete and Abandoned included, and the
\* status the plan already has).
C15_StatusSetFromAny ==
    [][/\ result'.op = "create_plan" =>
             /\ result'.status = "Ok"
             /\ result'.value[1] \notin DOMAIN plans
             /\ plans'[result'.value[1]].status = "interviewing"
       /\ (result'.op = "update_plan_status" /\ result'.args[1] \in DOMAIN plans) =>
             /\ result'.status = "Ok"
             /\ plans'[result'.args[1]].status = result'.args[2]
      ]_vars

\* a plan once forced to spec_ready by an attached spec was set back to
\* interviewing at a later time
C15_Witness ==
    /\ result.op = "update_plan_status"
    /\ result.args[1] \in DOMAIN plans
    /\ result.args[2] = "interviewing"
    /\ plans[result.args[1]].spec_file_path # None
    /\ plans[result.args[1]].updated_at.t > plans[result.args[1]].created_at.t

\* C16: attach_spec(plan, path) on a plan in any of the 6 statuses sets
\* spec_file_path to path, forces status to SpecReady and sets updated_at to the
\* time of the call.
C16_AttachSpecForcesSpecReady ==
    [][(result'.op = "update_plan_spec_path" /\ result'.args[1] \in DOMAIN plans) =>
          LET id == result'.args[1]
          IN  /\ result'.status = "Ok"
              /\ plans'[id].spec_file_path = Some(result'.args[2])
              /\ plans'[id].status = "spec_ready"
              /\ plans'[id].updated_at.t = now
      ]_vars

\* a spec was attached to a plan created at an earlier time
C16_Witness ==
    /\ result.op = "update_plan_spec_path"
    /\ result.args[1] \in DOMAIN plans
    /\ plans[result.args[1]].status = "spec_ready"
    /\ plans[result.args[1]].spec_file_path = Some("spec.md")
    /\ plans[result.args[1]].updated_at.t > plans[result.args[1]].created_at.t

\* the category strings that name none of the 12 categories
Unrecognized == {s \in CategoryStrings : to_lowercase(s) \notin InterviewCategory}

\* the entries of a plan that were inserted with an unrecognized category string
InsertedUnrecognized(plan_id) ==
    {e.id : e \in {r \in SeqToSet(plan_interview_entries) :
                       r.plan_id = plan_id /\ r.content \in Unrecognized}}

\* C17: parsing a category string yields the matching category for a recognized
\* string and Other for every unrecognized one, never a rejection; an entry
\* inserted with an unrecognized category string is stored under Other and is
\* returned under Other by get_interview_entries and by the category filter
\* for Other.
C17_UnknownCategoryIsOther ==
    /\ [](/\ \A c \in InterviewCategory : InterviewCategory_from_str(c) = Some(c)
          /\ \A s \in CategoryStrings :
                /\ InterviewCategory_from_str(s) # None
                /\ InterviewCategory_from_str(s)[1] \in InterviewCategory
                /\ s \in Unrecognized => InterviewCategory_from_str(s) = Some("other"))
    /\ [][(result'.op = "add_interview_entry" /\ result'.status = "Ok"
              /\ result'.args[3] \in Unrecognized) =>
             /\ Len(plan_interview_entries') = Len(plan_interview_entries) + 1
             /\ plan_interview_entries'[Len(plan_interview_entries')].category = "other"
          ]_vars
    /\ [](result.op = "get_interview_entries" =>
             /\ InsertedUnrecognized(result.args[1])
                   \subseteq {result.value[i].id : i \in DOMAIN result.value}
             /\ \A i \in DOMAIN result.value :
                   result.value[i].content \in Unrecognized =>
                       result.value[i].category = "other")
    /\ [](result.op = "get_interview_entries_by_category" /\ result.args[2] = "other" =>
             /\ InsertedUnrecognized(result.args[1])
                   \subseteq {result.value[i].id : i \in DOMAIN result.value}
             /\ \A i \in DOMAIN result.value : result.value[i].category = "other")

\* the filter for Other returned the entry inserted as "unknown_category" and
\* not the plan's security entry
C17_Witness ==
    /\ result.op = "get_interview_entries_by_category"
    /\ result.args[2] = "other"
    /\ Len(result.value) = 1
    /\ result.value[1].content = "unknown_category"
    /\ \E e \in SeqToSet(plan_interview_entries) :
          e.plan_id = result.args[1] /\ e.category = "security"

\* the sessions of a topic, in the state before the delete
SessionsOf(topic_id) ==
    {x \in DOMAIN learning_sessions : learning_sessions[x].topic_id = topic_id}

\* C18: delete_topic removes the topic together with its progress row, review
\* history, learning sessions, the gaps of those sessions, skill assessments and
\* tag links; delete_plan removes the plan together with all its interview
\* entries; after the delete no row referring to the removed id remains, and the
\* rows of other topics and plans are unchanged.
C18_DeleteCascades ==
    [][/\ result'.op = "delete_topic" =>
             LET id == result'.args[1]
                 gone == SessionsOf(id)
             IN  /\ topics' = Restrict(topics, DOMAIN topics \ {id})
                 /\ progress' = Restrict(progress, DOMAIN progress \ {id})
                 /\ topic_tags' = {tt \in topic_tags : tt[1] # id}
                 /\ review_history' = SelectSeq(review_history, LAMBDA r : r.topic_id # id)
                 /\ learning_sessions' =
                        Restrict(learning_sessions, DOMAIN learning_sessions \ gone)
                 /\ session_gaps' =
                        Restrict(session_gaps,
                                 {g \in DOMAIN session_gaps :
                                     session_gaps[g].session_id \notin gone})
                 /\ skill_assessments' =
                        SelectSeq(skill_assessments, LAMBDA r : r.topic_id # id)
                 /\ \A g \in DOMAIN session_gaps' :
                        session_gaps'[g].session_id \in DOMAIN learning_sessions'
                 /\ UNCHANGED planVars
       /\ result'.op = "delete_plan" =>
             LET id == result'.args[1]
             IN  /\ plans' = Restrict(plans, DOMAIN plans \ {id})
                 /\ plan_interview_entries' =
                        SelectSeq(plan_interview_entries, LAMBDA e : e.plan_id # id)
                 /\ UNCHANGED <<app, topicVars, review_history, sessionVars, skill_assessments>>
      ]_vars

\* topic 1 was deleted with a row in every dependent table, topic 2 keeps its own
C18_Witness ==
    /\ result.op = "delete_topic"
    /\ result.args = <<1>>
    /\ result.value = Some(TRUE)
    /\ DOMAIN topics = {2}
    /\ DOMAIN progress = {2}
    /\ Len(review_history) = 1 /\ sqlite_sequence.review_history = 2
    /\ DOMAIN learning_sessions = {2}
    /\ DOMAIN session_gaps = {2}
    /\ Len(skill_assessments) = 1 /\ sqlite_sequence.skill_assessments = 2
    /\ "rust" \in tags /\ topic_tags = {}
    /\ DOMAIN plans = {2}
    /\ Len(plan_interview_entries) = 1 /\ sqlite_sequence.plan_interview_entries = 2

\* C19: add_topic creates the topic and exactly one Progress row for it with
\* mastery_level 0, times_reviewed 0, times_succeeded 0, skill_level 0,
\* assessment_method none, last_reviewed and last_assessed unset and next_review
\* set to the creation time; in every reachable state each existing topic has
\* exactly one Progress row (and no row is without its topic).
C19_OneProgressPerTopic ==
    /\ [][(result'.op = "add_topic" /\ result'.status = "Ok") =>
             LET id == result'.value[1]
                 p == progress'[id]
             IN  /\ id \notin DOMAIN topics /\ id \notin DOMAIN progress
                 /\ DOMAIN topics' = DOMAIN topics \cup {id}
                 /\ topics'[id].name = result'.args[1]
                 /\ DOMAIN progress' = DOMAIN progress \cup {id}
                 /\ \A other \in DOMAIN progress : progress'[other] = progress[other]
                 /\ p.mastery_level = 0 /\ p.times_reviewed = 0 /\ p.times_succeeded = 0
                 /\ p.skill_level = 0 /\ p.assessment_method = "none"
                 /\ p.last_reviewed = None /\ p.last_assessed = None
                 /\ p.next_review.t = now
                 /\ p.next_review = topics'[id].created_at
          ]_vars
    /\ [](DOMAIN progress = DOMAIN topics)

\* a second topic was created at a later time than the first, which was reviewed
C19_Witness ==
    /\ result.op = "add_topic"
    /\ result.status = "Ok"
    /\ result.value = Some(2)
    /\ now > 0
    /\ 1 \in DOMAIN progress
    /\ progress[1].times_reviewed = 1

\* C20: add_topic with a name that already belongs to a topic fails and changes
\* nothing: no topic, progress row, tag or topic-tag link is added and the
\* existing topic is unchanged.
C20_DuplicateNameRejected ==
    [][(/\ result'.op = "add_topic"
        /\ \E id \in DOMAIN topics : topics[id].name = result'.args[1]) =>
          /\ result'.status # "Ok"
          /\ store' = store
      ]_vars

\* the name "a" was offered again with a tag the store does not know
C20_Witness ==
    /\ result.op = "add_topic"
    /\ result.status # "Ok"
    /\ result.args[1] = "a"
    /\ result.args[3] = <<"go">>
    /\ tags = {"rust"}
    /\ \E id \in DOMAIN topics : topics[id].name = "a"

\* the table an updating call looks its first argument up in
TargetTable(op) ==
    CASE op = "end_session" -> DOMAIN learning_sessions
      [] op = "mark_gap_addressed" -> DOMAIN session_gaps
      [] op \in {"update_plan_status", "update_plan_engineer_level",
                 "update_plan_spec_path"} -> DOMAIN plans
      [] OTHER -> {}

UpdatingOps ==
    {"end_session", "mark_gap_addressed", "update_plan_status",
     "update_plan_engineer_level", "update_plan_spec_path"}

\* C21: end_session, mark_gap_addressed, update_plan_status,
\* update_plan_engineer_level and update_plan_spec_path called with the id of a
\* session, gap or plan that does not exist return a NotFound failure and change
\* nothing in the store.
C21_MissingIsNotFound ==
    [][(/\ result'.op \in UpdatingOps
        /\ result'.args[1] \notin TargetTable(result'.op)) =>
          /\ result'.status = "NotFound"
          /\ store' = store
      ]_vars

Ended(s) == IsSome(s.ended_at)

\* C22: end_session on an existing session, Active or already Ended, returns Ok
\* and sets ended_at to the time of the call and outcome, summary and notes to the
\* supplied values (an absent summary or notes clears the stored one), leaving
\* every other field and every other session alone; and no step turns a session
\* that is Ended back into an Active one.
C22_EndSessionOverwrites ==
    /\ [][(/\ result'.op = "end_session"
           /\ result'.args[1] \in DOMAIN learning_sessions) =>
             /\ result'.status = "Ok"
             /\ learning_sessions' =
                  [learning_sessions EXCEPT ![result'.args[1]] =
                      [@ EXCEPT !.ended_at = Some(to_rfc3339(now)),
                                !.outcome = Some(result'.args[2]),
                                !.summary = result'.args[3],
                                !.notes = result'.args[4]]]
         ]_vars
    /\ [][\A s \in DOMAIN learning_sessions \cap DOMAIN learning_sessions' :
             Ended(learning_sessions[s]) => Ended(learning_sessions'[s])
         ]_vars

\* end_session at tick 2 on the session started at tick 0, with notes and without
\* a summary: the session is Ended at tick 2 and holds exactly these values
C22_Witness ==
    /\ result.op = "end_session"
    /\ result.args[3] = None
    /\ result.args[4] = Some("n1")
    /\ 1 \in DOMAIN learning_sessions
    /\ learning_sessions[1].started_at = to_rfc3339(0)
    /\ learning_sessions[1].ended_at = Some(to_rfc3339(2))
    /\ learning_sessions[1].summary = None
    /\ learning_sessions[1].notes = Some("n1")

TouchingOps ==
    {"add_interview_entry", "update_plan_status", "update_plan_engineer_level",
     "update_plan_spec_path"}

\* the instant a stored timestamp denotes
InstantOf(s) == parse_from_rfc3339(s)[1]

\* C23: add_interview_entry, update_plan_status, update_plan_engineer_level and
\* update_plan_spec_path on an existing plan each set that plan's updated_at to
\* the time of the call; no step changes a plan's created_at or moves its
\* updated_at back; and in every state every plan has updated_at >= created_at.
C23_UpdatedAtFollowsCalls ==
    /\ [][(/\ result'.op \in TouchingOps
           /\ result'.status = "Ok"
           /\ result'.args[1] \in DOMAIN plans) =>
             plans'[result'.args[1]].updated_at = to_rfc3339(now)
         ]_vars
    /\ [][\A p \in DOMAIN plans \cap DOMAIN plans' :
             /\ plans'[p].created_at = plans[p].created_at
             /\ InstantOf(plans'[p].updated_at) >= InstantOf(plans[p].updated_at)
         ]_vars
    /\ [](\A p \in DOMAIN plans :
             /\ IsSome(parse_from_rfc3339(plans[p].created_at))
             /\ IsSome(parse_from_rfc3339(plans[p].updated_at))
             /\ InstantOf(plans[p].updated_at) >= InstantOf(plans[p].created_at))

\* the engineer level of the plan created at tick 1 was set at tick 2, after an
\* interview entry had been added to it
C23_Witness ==
    /\ result.op = "update_plan_engineer_level"
    /\ 1 \in DOMAIN plans
    /\ plans[1].created_at = to_rfc3339(1)
    /\ plans[1].updated_at = to_rfc3339(2)
    /\ plans[1].engineer_level = Some("senior")
    /\ Len(plan_interview_entries) = 1

\* the entries of a plan as they were added, oldest first
AddedTo(plan_id) == SelectSeq(plan_interview_entries, LAMBDA e : e.plan_id = plan_id)

EntryIds(entries) == {entries[i].id : i \in DOMAIN entries}

\* C24: get_interview_entries(plan) returns the entries added to that plan and
\* still stored, none of another plan, in the order in which they were added;
\* get_interview_entries_by_category(plan, c) returns the subsequence of those
\* with category c; and a step leaves every stored entry as it is and in place,
\* except that delete_plan removes the entries of the plan it deletes.
C24_EntriesInOrderAdded ==
    /\ [][result'.op = "get_interview_entries" =>
             /\ result'.status = "Ok"
             /\ result'.value = AddedTo(result'.args[1])
         ]_vars
    /\ [][result'.op = "get_interview_entries_by_category" =>
             /\ result'.status = "Ok"
             /\ result'.value =
                  SelectSeq(AddedTo(result'.args[1]),
                            LAMBDA e : e.category = result'.args[2])
         ]_vars
    /\ [][/\ SelectSeq(plan_interview_entries', LAMBDA e :
                          e.id \in EntryIds(plan_interview_entries))
             = SelectSeq(plan_interview_entries, LAMBDA e : e.plan_id \in DOMAIN plans')
          /\ result'.op # "delete_plan" =>
                EntryIds(plan_interview_entries) \subseteq EntryIds(plan_interview_entries')
         ]_vars

\* plan 1 holds a scope entry, then a security entry, then a scope entry; the
\* scope entries are read back: the first and the third, in that order
C24_Witness ==
    /\ result.op = "get_interview_entries_by_category"
    /\ result.args = <<1, "scope">>
    /\ Len(result.value) = 2
    /\ result.value[1].id = 1
    /\ result.value[2].id = 3
    /\ Len(AddedTo(1)) = 3
    /\ AddedTo(1)[2].category = "security"

\* the instant a stored next_review denotes, in either format
NextReviewInstant(id) == progress[id].next_review.t

\* C25: get_stats.due_now is the number of topics whose next_review is at or
\* before now, for never-reviewed topics and for reviewed ones: a reviewed topic
\* is counted from the instant its next_review has passed.
C25_DueNowCountsPassed ==
    [][result'.op = "get_stats" =>
          result'.value.due_now =
              Cardinality({id \in DOMAIN progress : NextReviewInstant(id) <= now})
      ]_vars

\* C26: on a topic created by add_topic, after any sequence of record_review
\* calls, mastery_level <= times_succeeded; the level rises only in a Success
\* review, by one, and that review also adds one to times_succeeded.
C26_MasteryAtMostSuccesses ==
    /\ [](\A id \in DOMAIN progress :
             progress[id].mastery_level <= progress[id].times_succeeded)
    /\ [][\A id \in DOMAIN progress \cap DOMAIN progress' :
             progress'[id].mastery_level > progress[id].mastery_level =>
                 /\ ReviewOk(result')
                 /\ result'.args[1] = id
                 /\ result'.args[2] = "success"
                 /\ progress'[id].mastery_level = progress[id].mastery_level + 1
                 /\ progress'[id].times_succeeded = progress[id].times_succeeded + 1
         ]_vars

\* six reviews, four of them Success and the last one a Success: the level is 3,
\* below the four successes counted
C26_Witness ==
    /\ ReviewOk(result) /\ result.args[2] = "success"
    /\ progress[1].times_reviewed = 6
    /\ progress[1].times_succeeded = 4
    /\ progress[1].mastery_level = 3

\* the review history entries of a topic
HistoryOf(id) == {i \in DOMAIN review_history : review_history[i].topic_id = id}

RECURSIVE SumReviewed(_)
SumReviewed(ids) ==
    IF ids = {} THEN 0
    ELSE LET id == CHOOSE x \in ids : TRUE
         IN  progress[id].times_reviewed + SumReviewed(ids \ {id})

\* C27: for every topic, times_reviewed is the number of its review history
\* entries and times_succeeded the number of those with outcome success; and
\* get_stats.total_reviews is the sum of times_reviewed over the existing topics.
C27_CountersMatchHistory ==
    /\ [](\A id \in DOMAIN topics :
             /\ id \in DOMAIN progress
             /\ progress[id].times_reviewed = Cardinality(HistoryOf(id))
             /\ progress[id].times_succeeded =
                  Cardinality({i \in HistoryOf(id) : review_history[i].outcome = "success"}))
    /\ [][result'.op = "get_stats" =>
             result'.value.total_reviews = SumReviewed(DOMAIN topics)
         ]_vars

\* three reviews were recorded, one of them on a topic that was deleted since;
\* the topic that is left has two, one a Success, and get_stats reports two
C27_Witness ==
    /\ result.op = "get_stats"
    /\ result.value.total_reviews = 2
    /\ sqlite_sequence.review_history = 3
    /\ \E id \in DOMAIN topics :
          /\ progress[id].times_reviewed = 2
          /\ progress[id].times_succeeded = 1

KeyPressed(r) == r.op = "handle_key"

DetailViews == {"TopicDetail", "PlanDetail"}

\* C28: the view is TopicDetail only while selected_topic is set and PlanDetail
\* only while selected_plan is set; a detail view is entered only by Enter, l or
\* Right pressed outside the filter editor on the list view of its kind with an
\* item selected, which becomes the selected topic or plan; and Tab, BackTab, h
\* and Left never end in a detail view.
C28_DetailNeedsSelection ==
    /\ [](/\ app.view = "TopicDetail" => app.selected_topic # None
          /\ app.view = "PlanDetail" => app.selected_plan # None)
    /\ [][app'.view \in DetailViews /\ app'.view # app.view =>
             /\ KeyPressed(result')
             /\ result'.args[1] \in {<<"Enter">>, Char("l"), <<"Right">>}
             /\ ~app.filter_mode
             /\ app.view = (IF app'.view = "TopicDetail" THEN "Topics" ELSE "Plans")
             /\ LET list == IF app'.view = "TopicDetail" THEN app.topics ELSE app.plans
                    chosen == IF app'.view = "TopicDetail" THEN app'.selected_topic
                              ELSE app'.selected_plan
                IN  /\ list.selected # None
                    /\ list.selected[1] < Len(list.items)
                    /\ chosen = Some(list.items[list.selected[1] + 1])
         ]_vars
    /\ [][(/\ KeyPressed(result')
           /\ result'.args[1] \in {<<"Tab">>, <<"BackTab">>, Char("h"), <<"Left">>}) =>
             app'.view \notin DetailViews
         ]_vars

\* Right on the second item of the topics list opened the detail view of it
C28_Witness ==
    /\ KeyPressed(result)
    /\ result.args[1] = <<"Right">>
    /\ app.view = "TopicDetail"
    /\ app.topics.selected = Some(1)
    /\ app.selected_topic = Some(app.topics.items[2])

\* what C29 says of every key in the filter editor but the list selections
FilterEditorFrame ==
    /\ [][KeyPressed(result') /\ app.filter_mode =>
             /\ app'.view = app.view
             /\ app'.plans = app.plans
             /\ app'.should_quit = app.should_quit
             /\ result'.args[1] = Char("q") =>
                    app'.filter_input = Append(app.filter_input, "q")
             /\ ~app'.filter_mode => result'.args[1] \in {<<"Esc">>, <<"Enter">>}
             /\ result'.args[1] \in {<<"Esc">>, <<"Enter">>} => ~app'.filter_mode
         ]_vars
    /\ [][~app.filter_mode /\ app'.filter_mode =>
             /\ KeyPressed(result')
             /\ result'.args[1] = Char("/")
             /\ app.view = "Topics"
         ]_vars

\* C29 as claimed: while filter_mode is true every key press leaves the view, the
\* selections of both lists and should_quit unchanged (q is appended to the
\* filter text), filter_mode is left only by Esc or Enter, and it becomes true
\* only by / pressed in the Topics view.
C29_FilterKeysKeepSelections ==
    /\ FilterEditorFrame
    /\ [][KeyPressed(result') /\ app.filter_mode =>
             app'.topics.selected = app.topics.selected
         ]_vars

\* C29 as amended: the same, except that Enter applies the filter: filter_tag
\* becomes the text typed (None when it is empty) and the selection of the
\* reloaded topics list is its first item, or None when that list is empty;
\* every other key leaves the topics list and its selection unchanged.
C29_FilterKeysKeepSelectionsButEnter ==
    /\ FilterEditorFrame
    /\ [][KeyPressed(result') /\ app.filter_mode =>
             IF result'.args[1] = <<"Enter">>
             THEN /\ app'.filter_tag =
                        (IF app.filter_input = <<>> THEN None ELSE Some(app.filter_input))
                  /\ app'.topics.selected =
                        (IF app'.topics.items = <<>> THEN None ELSE Some(0))
             ELSE app'.topics = app.topics
         ]_vars

\* Enter in the filter editor with r typed, over a store of two topics: the list
\* holds the one topic tagged r, selected
C29_Witness ==
    /\ KeyPressed(result)
    /\ result.args[1] = <<"Enter">>
    /\ ~app.filter_mode
    /\ app.filter_input = <<"r">>
    /\ app.filter_tag = Some(<<"r">>)
    /\ Cardinality(DOMAIN topics) = 2
    /\ Len(app.topics.items) = 1
    /\ app.topics.selected = Some(0)

\* a key that reaches the list of the view: pressed outside the filter editor
ListKey(keys) ==
    /\ KeyPressed(result')
    /\ ~app.filter_mode
    /\ result'.args[1] \in keys
    /\ app.view \in {"Topics", "Plans"}

\* the list of the view, before and after the step
ListBefore == IF app.view = "Topics" THEN app.topics ELSE app.plans
ListAfter == IF app.view = "Topics" THEN app'.topics ELSE app'.plans

Last(list) == Len(list.items) - 1

\* C30: in a StatefulList made by with_items and moved by next, previous, g and
\* G, selected is None exactly when the list is empty and is otherwise an index
\* below the length; next moves one down and from the last item to index 0,
\* previous one up and from index 0 to the last item, g selects index 0, G the
\* last item; and previous after next gives the index it started from.
C30_SelectionInRange ==
    /\ [](\A list \in {app.topics, app.plans} :
             /\ list.selected = None <=> list.items = <<>>
             /\ list.selected # None => list.selected[1] \in 0 .. Last(list)
             /\ StatefulList_previous(StatefulList_next(list)) = list)
    /\ [][ListKey({Char("j"), <<"Down">>}) /\ ListBefore.items # <<>> =>
             ListAfter = [ListBefore EXCEPT !.selected =
                            IF @[1] = Last(ListBefore) THEN Some(0) ELSE Some(@[1] + 1)]
         ]_vars
    /\ [][ListKey({Char("k"), <<"Up">>}) /\ ListBefore.items # <<>> =>
             ListAfter = [ListBefore EXCEPT !.selected =
                            IF @[1] = 0 THEN Some(Last(ListBefore)) ELSE Some(@[1] - 1)]
         ]_vars
    /\ [][ListKey({Char("g")}) /\ ListBefore.items # <<>> =>
             ListAfter = [ListBefore EXCEPT !.selected = Some(0)]
         ]_vars
    /\ [][ListKey({Char("G")}) /\ ListBefore.items # <<>> =>
             ListAfter = [ListBefore EXCEPT !.selected = Some(Last(ListBefore))]
         ]_vars
    /\ [][ListKey({Char("j"), <<"Down">>, Char("k"), <<"Up">>, Char("g"), Char("G")})
          /\ ListBefore.items = <<>> =>
             ListAfter = ListBefore
         ]_vars

\* j pressed on the last of two topics: the first one is selected
C30_Witness ==
    /\ KeyPressed(result)
    /\ result.args[1] = Char("j")
    /\ app.view = "Topics"
    /\ ~app.filter_mode
    /\ Len(app.topics.items) = 2
    /\ app.topics.selected = Some(0)

====
